---- MODULE Spec2Model ----
(***************************************************************************)
(* Model of src/final_boss_presentation.py: the derived-metrics pipeline   *)
(* of the F1 "Final Boss" dashboard.  The script is one linear run over an *)
(* in-memory table: load_and_process_data (Normalizer), circuit_stats and  *)
(* difficulty tiers (Tier Classifier), the group-by summaries (Aggregator) *)
(* the findings that index into the filtered leaderboards, and the         *)
(* composite score of the candidates with its ranking (Scorer).            *)
(* A finished run may be followed by a rerun of the script over the same   *)
(* cached input; run counts the runs, first keeps the first results.       *)
(*                                                                         *)
(* Values.  A nullable cell is a sequence: NaN == << >> is the missing     *)
(* value (pandas NaN / NaT / None) and Some(v) == <<v>> a present one.     *)
(* A text is a sequence of one-character strings.  A float is a record     *)
(* [k, n, d]: k = "num" is the rational n/d (d > 0), k = "nan" is NaN,     *)
(* k = "pinf" is +inf and k = "ninf" is -inf.  A normalized value keeps    *)
(* the 1e-10 of its denominator as a symbol (k = "eps"), and a score is    *)
(* the list of its four weighted terms (k = "sum").                        *)
(***************************************************************************)
EXTENDS Integers, Sequences, FiniteSets, TLC

VARIABLES csv, df, pc, error, circuit_stats, q33, q66, big_circuits,
          age_perf, driver_summary, driver_easy_hard, nationality_summary,
          constructor_summary, major_constructors, experienced, df_nat,
          constructor_easy_hard, candidates, top_15, winner, top_hard,
          top_ppr, nationality_filtered, top_tank, h2_finding, run, first

vars == <<csv, df, pc, error, circuit_stats, q33, q66, big_circuits,
          age_perf, driver_summary, driver_easy_hard, nationality_summary,
          constructor_summary, major_constructors, experienced, df_nat,
          constructor_easy_hard, candidates, top_15, winner, top_hard,
          top_ppr, nationality_filtered, top_tank, h2_finding, run, first>>

\* ------------------------------------------------------------------ values
NaN == << >>
Some(v) == <<v>>
IsNa(x) == x = NaN
Val(x) == x[1]

\* ------------------------------------------------------------------- texts
Caps == <<"A","B","C","D","E","F","G","H","I","J","K","L","M",
          "N","O","P","Q","R","S","T","U","V","W","X","Y","Z">>
Smalls == <<"a","b","c","d","e","f","g","h","i","j","k","l","m",
            "n","o","p","q","r","s","t","u","v","w","x","y","z">>

lower_char(c) ==
    IF \E i \in 1..26 : Caps[i] = c
    THEN Smalls[CHOOSE i \in 1..26 : Caps[i] = c]
    ELSE c

upper_char(c) ==
    IF \E i \in 1..26 : Smalls[i] = c
    THEN Caps[CHOOSE i \in 1..26 : Smalls[i] = c]
    ELSE c

\* str.lower() / str.upper()
lower(s) == [i \in 1..Len(s) |-> lower_char(s[i])]
upper(s) == [i \in 1..Len(s) |-> upper_char(s[i])]

\* str.startswith(p)
startswith(s, p) == Len(s) >= Len(p) /\ SubSeq(s, 1, Len(p)) = p

\* k in s  (substring test)
contains(s, k) ==
    \E i \in 1..(Len(s) - Len(k) + 1) : SubSeq(s, i, i + Len(k) - 1) = k

\* str(status): a missing status prints as "nan"
str(status) == IF IsNa(status) THEN <<"n","a","n">> ELSE Val(status)

T_Finished == <<"F","i","n","i","s","h","e","d">>
T_finished == <<"f","i","n","i","s","h","e","d">>
T_plus == <<"+">>

mech_keywords ==
    { <<"e","n","g","i","n","e">>,
      <<"g","e","a","r","b","o","x">>,
      <<"h","y","d","r","a","u","l","i","c","s">>,
      <<"e","l","e","c","t","r","i","c","a","l">>,
      <<"t","r","a","n","s","m","i","s","s","i","o","n">>,
      <<"b","r","a","k","e">>,
      <<"c","l","u","t","c","h">>,
      <<"s","u","s","p","e","n","s","i","o","n">>,
      <<"p","o","w","e","r"," ","u","n","i","t">>,
      <<"t","u","r","b","o">> }

accident_keywords ==
    { <<"a","c","c","i","d","e","n","t">>,
      <<"c","o","l","l","i","s","i","o","n">>,
      <<"s","p","u","n">>,
      <<"c","r","a","s","h">> }

Categories == {"Finished", "Mechanical DNF", "Accident", "Other DNF"}

\* ------------------------------------------------------------------ floats
RECURSIVE gcd(_, _)
gcd(a, b) == IF b = 0 THEN a ELSE gcd(b, a % b)

abs(x) == IF x < 0 THEN -x ELSE x

\* the rational n/d in lowest terms (d > 0)
Num(n, d) ==
    LET g == gcd(abs(n), d)
    IN  [k |-> "num", n |-> n \div g, d |-> d \div g]

FNaN == [k |-> "nan", n |-> 0, d |-> 1]
NInf == [k |-> "ninf", n |-> 0, d |-> 1]
PInf == [k |-> "pinf", n |-> 0, d |-> 1]

\* x <= y on floats: any comparison with NaN is False
f_le(x, y) ==
    IF x.k = "nan" \/ y.k = "nan" THEN FALSE
    ELSE IF x.k = "ninf" \/ y.k = "pinf" THEN TRUE
    ELSE IF y.k = "ninf" \/ x.k = "pinf" THEN FALSE
    ELSE x.n * y.d <= y.n * x.d

f_lt(x, y) == f_le(x, y) /\ ~f_le(y, x)
f_ge(x, y) == f_le(y, x)
f_gt(x, y) == f_lt(y, x)

\* a / b of two integers in float arithmetic (b >= 0): 0/0 is NaN and
\* x/0 is +inf or -inf by the sign of x
int_div(a, b) ==
    IF b # 0 THEN Num(a, b)
    ELSE IF a = 0 THEN FNaN
    ELSE IF a > 0 THEN PInf ELSE NInf

\* 1 - x
one_minus(x) ==
    IF x.k = "num" THEN Num(x.d - x.n, x.d)
    ELSE IF x.k = "pinf" THEN NInf
    ELSE IF x.k = "ninf" THEN PInf
    ELSE FNaN

\* x * y and x / y on finite non-negative floats; NaN propagates
f_mul(x, y) ==
    IF x.k = "num" /\ y.k = "num" THEN Num(x.n * y.n, x.d * y.d) ELSE FNaN

f_div(x, y) ==
    IF x.k = "num" /\ y.k \in {"pinf", "ninf"} THEN Num(0, 1)
    ELSE IF x.k # "num" \/ y.k # "num" THEN FNaN
    ELSE IF y.n > 0 THEN Num(x.n * y.d, x.d * y.n)
    ELSE IF y.n < 0 THEN Num(-(x.n * y.d), x.d * (-y.n))
    ELSE IF x.n = 0 THEN FNaN
    ELSE IF x.n > 0 THEN PInf ELSE NInf

\* x + y and x - y on finite floats; NaN propagates
f_add(x, y) ==
    IF x.k = "num" /\ y.k = "num"
    THEN Num(x.n * y.d + y.n * x.d, x.d * y.d) ELSE FNaN

f_sub(x, y) ==
    IF x.k = "num" /\ y.k = "num"
    THEN Num(x.n * y.d - y.n * x.d, x.d * y.d) ELSE FNaN

\* a nullable integer cell as a float
to_float(x) == IF IsNa(x) THEN FNaN ELSE Num(Val(x), 1)

\* Series.min() / Series.max() of a column f (key -> float): NaN is
\* skipped, an empty or all-NaN column gives NaN
s_min(f) ==
    LET keep == {c \in DOMAIN f : f[c].k # "nan"}
    IN  IF keep = {} THEN FNaN
        ELSE f[CHOOSE c \in keep : \A o \in keep : f_le(f[c], f[o])]

s_max(f) ==
    LET keep == {c \in DOMAIN f : f[c].k # "nan"}
    IN  IF keep = {} THEN FNaN
        ELSE f[CHOOSE c \in keep : \A o \in keep : f_ge(f[c], f[o])]

\* the sum of f over the keys I
RECURSIVE f_sum(_, _)
f_sum(I, f) ==
    IF I = {} THEN Num(0, 1)
    ELSE LET i == CHOOSE j \in I : TRUE
         IN  f_add(f[i], f_sum(I \ {i}, f))

\* ("col", "mean") of a float column f over the rows I: NaN is skipped
f_mean(I, f) ==
    LET keep == {i \in I : f[i].k # "nan"}
    IN  IF keep = {} THEN FNaN
        ELSE f_div(f_sum(keep, f), Num(Cardinality(keep), 1))

\* ------------------------------------------------------------- Normalizer
\* is_finished comparing without regard to letter case
is_finished_nocase(status) ==
    IF IsNa(status) THEN FALSE
    ELSE LET s == lower(str(status))
         IN  s = T_finished \/ startswith(s, T_plus)

is_finished(status) ==
    IF IsNa(status) THEN FALSE
    ELSE LET s == str(status)
         IN  s = T_Finished \/ startswith(s, T_plus)

\* classify_status without the .lower()
classify_status_cased(status) ==
    LET s == str(status)
    IN  IF s = T_finished \/ startswith(s, T_plus) THEN "Finished"
        ELSE IF \E k \in mech_keywords : contains(s, k) THEN "Mechanical DNF"
        ELSE IF \E k \in accident_keywords : contains(s, k) THEN "Accident"
        ELSE "Other DNF"

\* classify_status testing the accident keywords before the mechanical ones
classify_status_accident_first(status) ==
    LET s == lower(str(status))
    IN  IF s = T_finished \/ startswith(s, T_plus) THEN "Finished"
        ELSE IF \E k \in accident_keywords : contains(s, k) THEN "Accident"
        ELSE IF \E k \in mech_keywords : contains(s, k) THEN "Mechanical DNF"
        ELSE "Other DNF"

\* classify_status matching a mechanical keyword only as the whole text
classify_status_whole_word(status) ==
    LET s == lower(str(status))
    IN  IF s = T_finished \/ startswith(s, T_plus) THEN "Finished"
        ELSE IF s \in mech_keywords THEN "Mechanical DNF"
        ELSE IF \E k \in accident_keywords : contains(s, k) THEN "Accident"
        ELSE "Other DNF"

classify_status(status) ==
    LET s == lower(str(status))
    IN  IF s = T_finished \/ startswith(s, T_plus) THEN "Finished"
        ELSE IF \E k \in mech_keywords : contains(s, k) THEN "Mechanical DNF"
        ELSE IF \E k \in accident_keywords : contains(s, k) THEN "Accident"
        ELSE "Other DNF"

\* a - b on nullable numbers: NaN if either side is missing
nan_sub(a, b) == IF IsNa(a) \/ IsNa(b) THEN NaN ELSE Some(Val(a) - Val(b))

\* np.where(final_position.notna(), grid - final_position, nan)
position_delta(r) ==
    IF ~IsNa(r.final_position)
    THEN nan_sub(r.grid_starting_position, r.final_position)
    ELSE NaN

\* (race_date - driver_dob).dt.days / 365.25, kept as the exact rational
\* days*100 / 36525; NaT on either side gives NaN
age_years(r) ==
    IF IsNa(r.race_date) \/ IsNa(r.driver_dob) THEN FNaN
    ELSE Num((Val(r.race_date) - Val(r.driver_dob)) * 100, 36525)

process_row(r) ==
    [ driver |-> r.driver,
      driver_dob |-> r.driver_dob,
      driver_nationality |-> r.driver_nationality,
      constructor_name |-> r.constructor_name,
      circuit_name |-> r.circuit_name,
      race_name |-> r.race_name,
      year |-> r.year,
      race_date |-> r.race_date,
      grid_starting_position |-> r.grid_starting_position,
      final_position |-> r.final_position,
      status |-> r.status,
      points |-> r.points,
      age_years |-> age_years(r),
      finished |-> is_finished(r.status),
      status_category |-> classify_status(r.status),
      position_delta |-> position_delta(r) ]

\* -------------------------------------------------------- column helpers
\* rows of df whose column col holds key
rows_with(col, key) == {i \in DOMAIN df : df[i][col] = Some(key)}

\* the group keys of df.groupby(col): missing keys are dropped
group_keys(col) == {Val(df[i][col]) : i \in {j \in DOMAIN df : ~IsNa(df[j][col])}}

\* ("col", "count"): number of non-missing cells
count(I, col) == Cardinality({i \in I : ~IsNa(df[i][col])})

\* ("col", "nunique"): number of distinct non-missing cells
nunique(I, col) == Cardinality({df[i][col] : i \in I} \ {NaN})

\* ("finished", "sum") of a boolean column
sum_bool(I, col) == Cardinality({i \in I : df[i][col]})

RECURSIVE sum_col(_, _)
sum_col(I, col) ==
    IF I = {} THEN 0
    ELSE LET i == CHOOSE j \in I : TRUE
         IN  (IF IsNa(df[i][col]) THEN 0 ELSE Val(df[i][col]))
             + sum_col(I \ {i}, col)

\* ("col", "mean"): missing cells are skipped, an all-missing group is NaN
mean(I, col) == int_div(sum_col(I, col), count(I, col))

\* ("finished", "mean") of a boolean column
mean_bool(I, col) == int_div(sum_bool(I, col), Cardinality(I))

\* x == v with a missing cell taken as equal
eq_num_nan_matches(x, v) == IF IsNa(x) THEN TRUE ELSE Val(x) = v

\* x == v on a nullable number: NaN == v is False
eq_num(x, v) == ~IsNa(x) /\ Val(x) = v

\* lambda x: (x == 1).sum() over final_position
wins(I) == Cardinality({i \in I : eq_num(df[i].final_position, 1)})

\* ------------------------------------------------------- Tier Classifier
\* Thresholds of the leaderboards, scaled to the bounded table: the source
\* compares against 500 entries (circuits), 100 races (nationalities,
\* constructors), 50 races (drivers), 10 races per tier (drivers) and 50
\* races per tier (constructors), and shows the 10 (15 for the scorer)
\* largest; the model keeps the comparisons and shrinks the numbers so
\* that groups below, at and above a threshold all occur in the bounded
\* tables.
MinCircuitEntries == 2
MinNationalityRaces == 2
MinConstructorRaces == 2
MinDriverRaces == 5
min_races_per_tier == 2
MinConstructorTierRaces == 2
board_n == 1
top_n == 2

\* the column of a summary table as a function key -> value
column(tbl, col) == [c \in DOMAIN tbl |-> tbl[c][col]]

\* the summary table without the filter
at_least_unfiltered(tbl, col, min) == tbl

\* rows of a summary table whose column col is >= min
at_least(tbl, col, min) ==
    [c \in {x \in DOMAIN tbl : tbl[x][col] >= min} |-> tbl[c]]

\* every name of the model in sort order (the order of group-by keys)
NameOrder == <<"c1", "c2", "c3", "d1", "d2", "d3", "k1", "k2", "n1", "n2">>

\* the keys of S in sort order
sorted_keys(S) == SelectSeq(NameOrder, LAMBDA x : x \in S)

\* 1 - finishes / entries
dnf_rate(finishes, entries) == one_minus(int_div(finishes, entries))

\* df.groupby("circuit_name").agg(races, entries, finishes) and dnf_rate
circuit_agg(c) ==
    LET I == rows_with("circuit_name", c)
        entries == count(I, "driver")
        finishes == sum_bool(I, "finished")
    IN  [ races |-> nunique(I, "race_name"),
          entries |-> entries,
          finishes |-> finishes,
          dnf_rate |-> dnf_rate(finishes, entries) ]

\* Series.quantile(q/100) with linear interpolation over the non-NaN
\* values of column f (a function key -> float).  The result is a set of
\* outcomes: a single float, except where an interpolation end is -inf,
\* where NumPy's lerp gives NaN or -inf depending on the weight and on the
\* NumPy version.
quantile(f, q) ==
    LET keep == {c \in DOMAIN f : f[c].k # "nan"}
        n == Cardinality(keep)
        kth(p) == CHOOSE x \in {f[c] : c \in keep} :
                      /\ Cardinality({c \in keep : f_lt(f[c], x)}) < p
                      /\ p <= Cardinality({c \in keep : f_le(f[c], x)})
        h == q * (n - 1)
        i == h \div 100
        t == h % 100
        a == kth(i + 1)
        b == kth(IF i + 2 <= n THEN i + 2 ELSE n)
    IN  IF n = 0 THEN {FNaN}
        ELSE IF a.k # "num" \/ b.k # "num" THEN {FNaN, NInf}
        ELSE {Num(a.n * b.d * (100 - t) + b.n * a.d * t, a.d * b.d * 100)}

\* the tier lambda with the Medium and Hard labels exchanged
tier_swapped(x, lo, hi) ==
    IF f_le(x, lo) THEN "Easy"
    ELSE IF f_le(x, hi) THEN "Hard"
    ELSE "Medium"

\* lambda x: "Easy" if x <= q33 else ("Medium" if x <= q66 else "Hard")
tier(x, lo, hi) ==
    IF f_le(x, lo) THEN "Easy"
    ELSE IF f_le(x, hi) THEN "Medium"
    ELSE "Hard"


\* the dnf_rate of the circuits that pass the entries filter only
tier_basis_big == column(at_least(circuit_stats, "entries", MinCircuitEntries), "dnf_rate")

\* circuit_stats["dnf_rate"], the column the quantiles are taken of
tier_basis == column(circuit_stats, "dnf_rate")

\* circuit_stats[["dnf_rate", "difficulty"]].reset_index()
tier_table(stats) ==
    LET keys == sorted_keys(DOMAIN stats)
    IN  [i \in 1..Len(keys) |->
            [ circuit_name |-> keys[i],
              dnf_rate |-> stats[keys[i]].dnf_rate,
              difficulty |-> stats[keys[i]].difficulty ]]

\* the join of one left row with how="inner": no match, no row
join_row_inner(l, right) ==
    LET m == SelectSeq(right, LAMBDA r : l.circuit_name = Some(r.circuit_name))
    IN  [i \in 1..Len(m) |->
            l @@ [dnf_rate |-> m[i].dnf_rate,
                  difficulty |-> Some(m[i].difficulty)]]

\* one left row joined with its matches in the right table (how="left")
join_row(l, right) ==
    LET m == SelectSeq(right, LAMBDA r : l.circuit_name = Some(r.circuit_name))
    IN  IF Len(m) = 0
        THEN << l @@ [dnf_rate |-> FNaN, difficulty |-> NaN] >>
        ELSE [i \in 1..Len(m) |->
                 l @@ [dnf_rate |-> m[i].dnf_rate,
                       difficulty |-> Some(m[i].difficulty)]]

\* df.merge(right, on="circuit_name", how="left")
RECURSIVE merge_left(_, _)
merge_left(left, right) ==
    IF Len(left) = 0 THEN << >>
    ELSE join_row(Head(left), right) \o merge_left(Tail(left), right)

\* ------------------------------------------------------------- Aggregator
age_bins == <<18, 22, 25, 30, 35, 40, 100>>
age_labels == <<"18-22", "22-25", "25-30", "30-35", "35-40", "40+">>

\* pd.cut(age_years, bins=age_bins, labels=age_labels, right=False)
cut(x) ==
    LET inbin(i) == /\ age_bins[i] * x.d <= x.n
                    /\ x.n < age_bins[i + 1] * x.d
    IN  IF x.k # "num" THEN NaN
        ELSE IF \E i \in 1..6 : inbin(i)
        THEN Some(age_labels[CHOOSE i \in 1..6 : inbin(i)])
        ELSE NaN

\* the row with age_years cut down to whole years before the bucketing
with_age_bin_whole_years(r) ==
    LET y == IF r.age_years.k = "num"
             THEN Num(r.age_years.n \div r.age_years.d, 1) ELSE r.age_years
    IN  [age_bin |-> cut(y), age_years |-> y] @@ r

\* df["age_bin"] = pd.cut(df["age_years"], ...), on one row
with_age_bin(r) == [age_bin |-> cut(r.age_years)] @@ r

\* one row of df.groupby("age_bin", observed=True).agg(...) with win_rate
age_agg(b) ==
    LET I == rows_with("age_bin", b)
        races == count(I, "driver")
        w == wins(I)
    IN  [ races |-> races,
          avg_points |-> mean(I, "points"),
          finish_rate |-> mean_bool(I, "finished"),
          wins |-> w,
          win_rate |-> int_div(w * 100, races) ]

\* one row of df.groupby("driver").agg(...) with win_rate
driver_agg(d) ==
    LET I == rows_with("driver", d)
        races == count(I, "race_name")
        w == wins(I)
    IN  [ races |-> races,
          points_per_race |-> mean(I, "points"),
          avg_position_delta |-> mean(I, "position_delta"),
          finish_rate |-> mean_bool(I, "finished"),
          wins |-> w,
          win_rate |-> int_div(w, races) ]

\* rows of one (key, difficulty) group of df.groupby([col, "difficulty"])
tier_rows(col, key, t) == rows_with(col, key) \cap rows_with("difficulty", t)

\* the difficulty columns of the pivot of df.groupby([col, "difficulty"])
pivot_columns(col) ==
    {t \in {"Easy", "Medium", "Hard"} :
        \E key \in group_keys(col) : tier_rows(col, key, t) # {}}

\* the driver comparison with enough races on either tier
driver_easy_hard_either ==
    LET both == {d \in group_keys("driver") :
                    \/ Cardinality(tier_rows("driver", d, "Easy")) >= min_races_per_tier
                    \/ Cardinality(tier_rows("driver", d, "Hard")) >= min_races_per_tier}
        ppr(d, t) == mean(tier_rows("driver", d, t), "points")
        kept == {d \in both : ppr(d, "Easy").k # "nan" /\ ppr(d, "Hard").k # "nan"}
    IN  [d \in kept |->
            [ Easy |-> ppr(d, "Easy"),
              Hard |-> ppr(d, "Hard"),
              hard_ratio |-> f_div(ppr(d, "Hard"), ppr(d, "Easy")) ]]

\* driver_pivot restricted to drivers_both, after dropna(["Easy", "Hard"])
driver_easy_hard_tbl ==
    LET both == {d \in group_keys("driver") :
                    /\ Cardinality(tier_rows("driver", d, "Easy")) >= min_races_per_tier
                    /\ Cardinality(tier_rows("driver", d, "Hard")) >= min_races_per_tier}
        ppr(d, t) == mean(tier_rows("driver", d, t), "points")
        kept == {d \in both : ppr(d, "Easy").k # "nan" /\ ppr(d, "Hard").k # "nan"}
    IN  [d \in kept |->
            [ Easy |-> ppr(d, "Easy"),
              Hard |-> ppr(d, "Hard"),
              hard_ratio |-> f_div(ppr(d, "Hard"), ppr(d, "Easy")) ]]

\* rows of one (year, constructor_name) group
season_rows(y, c) == rows_with("year", y) \cap rows_with("constructor_name", c)

\* constructor_ppr with the constructor's rows of every season pooled
constructor_ppr_all_seasons(y, c) ==
    LET I == rows_with("constructor_name", c)
    IN  int_div(sum_col(I, "points"), count(I, "driver"))

\* constructor_season: constructor_points / constructor_entries of the
\* (year, constructor_name) group; the sum of no points is 0
constructor_ppr(y, c) ==
    LET I == season_rows(y, c)
    IN  int_div(sum_col(I, "points"), count(I, "driver"))

\* Series.replace({0: np.nan})
replace_zero(x) == IF x.k = "num" /\ x.n = 0 THEN FNaN ELSE x

\* one row of df_nat: the left merge with constructor_season gives a row
\* without year or constructor no constructor_ppr
nat_row(r) ==
    LET ppr == IF IsNa(r.year) \/ IsNa(r.constructor_name) THEN FNaN
               ELSE constructor_ppr(Val(r.year), Val(r.constructor_name))
    IN  r @@ [ constructor_ppr |-> ppr,
               normalized_points |-> f_div(to_float(r.points), replace_zero(ppr)) ]

\* one row of df_nat.groupby("driver_nationality").agg(...)
nationality_agg(n) ==
    LET I == rows_with("driver_nationality", n)
    IN  [ races |-> count(I, "race_name"),
          drivers |-> nunique(I, "driver"),
          avg_points |-> mean(I, "points"),
          avg_normalized_points |->
              f_mean(I, [i \in DOMAIN df_nat |-> df_nat[i].normalized_points]),
          finish_rate |-> mean_bool(I, "finished") ]

\* one row of df.groupby("constructor_name").agg(...)
constructor_agg(c) ==
    LET I == rows_with("constructor_name", c)
    IN  [ races |-> count(I, "race_name"),
          points_per_race |-> mean(I, "points"),
          finish_rate |-> mean_bool(I, "finished"),
          mech_dnf_rate |->
              int_div(Cardinality({i \in I : df[i].status_category = "Mechanical DNF"}),
                      Cardinality(I)),
          wins |-> wins(I) ]

\* constructor_pivot restricted to constructors_both, after
\* dropna(["Easy", "Hard"])
constructor_easy_hard_tbl ==
    LET both == {c \in group_keys("constructor_name") :
                    /\ Cardinality(tier_rows("constructor_name", c, "Easy"))
                          >= MinConstructorTierRaces
                    /\ Cardinality(tier_rows("constructor_name", c, "Hard"))
                          >= MinConstructorTierRaces}
        ppr(c, t) == mean(tier_rows("constructor_name", c, t), "points")
        kept == {c \in both : ppr(c, "Easy").k # "nan" /\ ppr(c, "Hard").k # "nan"}
    IN  [c \in kept |->
            [ Easy |-> ppr(c, "Easy"),
              Hard |-> ppr(c, "Hard"),
              hard_specialist_score |-> f_div(ppr(c, "Hard"), ppr(c, "Easy")) ]]

\* ------------------------------------------------------------------ Scorer
\* normalize divides by (max - min + 1e-10).  A value a / (r + eps), with
\* a and r rationals, r >= 0 and eps = 1e-10, is kept exactly as the record
\* [k |-> "eps", n, m, d, e] standing for (n/m) / (d + e*eps): n/m in
\* lowest terms and d, e coprime (zero is 0/1 over 1 + 0*eps).
ENum(a, r) ==
    IF a.n = 0 THEN [k |-> "eps", n |-> 0, m |-> 1, d |-> 1, e |-> 0]
    ELSE LET q == Num(a.n * r.d, a.d)
         IN  [k |-> "eps", n |-> q.n, m |-> q.d, d |-> r.n, e |-> r.d]

\* the rational a/b as such a value
ERat(a, b) ==
    LET q == Num(a, b)
    IN  [k |-> "eps", n |-> q.n, m |-> q.d, d |-> 1, e |-> 0]

\* w * x for a rational w = a/b
e_scale(a, b, x) ==
    LET q == Num(a * x.n, b * x.m)
    IN  [x EXCEPT !.n = q.n, !.m = q.d]

\* p * (q[1] + q[2]*eps) on polynomials in eps (coefficient lists)
lin_mul(p, q) ==
    [i \in 1..(Len(p) + 1) |->
        (IF i <= Len(p) THEN q[1] * p[i] ELSE 0)
        + (IF i >= 2 THEN q[2] * p[i - 1] ELSE 0)]

RECURSIVE poly_prod(_)
poly_prod(S) ==
    IF S = {} THEN <<1>>
    ELSE LET q == CHOOSE x \in S : TRUE
         IN  lin_mul(poly_prod(S \ {q}), q)

RECURSIVE lcm_of(_)
lcm_of(S) ==
    IF S = {} THEN 1
    ELSE LET x == CHOOSE y \in S : TRUE
             r == lcm_of(S \ {x})
         IN  (x \div gcd(x, r)) * r

RECURSIVE int_sum(_, _)
int_sum(S, f) ==
    IF S = {} THEN 0
    ELSE LET x == CHOOSE y \in S : TRUE
         IN  f[x] + int_sum(S \ {x}, f)

\* the sign (-1, 0, 1) of sum(xs) - sum(ys) for two lists of such values.
\* Terms over the same denominator are added up; the rest is brought over
\* the product of the denominators (all positive), which leaves a
\* polynomial in eps with integer coefficients.  The coefficients are
\* machine integers, below 1/eps in size, so the sign of the polynomial at
\* eps = 1e-10 is the sign of its lowest-order non-zero coefficient.
e_sign(xs, ys) ==
    LET dens == {<<xs[i].d, xs[i].e>> : i \in DOMAIN xs}
                \cup {<<ys[i].d, ys[i].e>> : i \in DOMAIN ys}
        part(q, s) == f_sum({i \in DOMAIN s : <<s[i].d, s[i].e>> = q},
                            [i \in DOMAIN s |-> Num(s[i].n, s[i].m)])
        coef == [q \in dens |-> f_sub(part(q, xs), part(q, ys))]
        live == {q \in dens : coef[q].n # 0}
        M == lcm_of({coef[q].d : q \in live})
        c == [i \in 1..Cardinality(live) |->
                int_sum(live, [q \in live |->
                    coef[q].n * (M \div coef[q].d) * poly_prod(live \ {q})[i]])]
        nz == {i \in DOMAIN c : c[i] # 0}
    IN  IF nz = {} THEN 0
        ELSE IF c[CHOOSE i \in nz : \A j \in nz : i <= j] > 0 THEN 1 ELSE -1

\* x <= y, x > y on single values
e_le(x, y) == e_sign(<<x>>, <<y>>) <= 0
e_gt(x, y) == e_sign(<<x>>, <<y>>) > 0

\* the same on weighted sums [k |-> "sum", terms |-> <<...>>]
sum_le(x, y) == e_sign(x.terms, y.terms) <= 0
sum_gt(x, y) == e_sign(x.terms, y.terms) > 0

\* the order of DataFrame.nlargest / sort_values(ascending=False) between
\* the rows at positions i and j of the key list: the larger value first,
\* equal values in table order, NaN last.  nan[k] tells whether the value
\* of key k is NaN, gt[<<a, b>>] whether the value of a is above that of b.
ranks_before(keys, nan, gt, i, j) ==
    IF nan[keys[i]] # nan[keys[j]] THEN nan[keys[j]]
    ELSE IF nan[keys[i]] THEN i < j
    ELSE IF gt[<<keys[i], keys[j]>>] THEN TRUE
    ELSE IF gt[<<keys[j], keys[i]>>] THEN FALSE
    ELSE i < j

\* the keys in that order
sort_keys_desc(keys, nan, gt) ==
    LET rank(i) == 1 + Cardinality({j \in DOMAIN keys :
                                      j # i /\ ranks_before(keys, nan, gt, j, i)})
    IN  [r \in DOMAIN keys |-> keys[CHOOSE i \in DOMAIN keys : rank(i) = r]]

\* tbl.sort_values(col, ascending=False) on a float column: the keys of
\* tbl in that order
sort_desc(tbl, col) ==
    sort_keys_desc(sorted_keys(DOMAIN tbl),
                   [k \in DOMAIN tbl |-> tbl[k][col].k = "nan"],
                   [p \in (DOMAIN tbl) \X (DOMAIN tbl) |->
                       f_gt(tbl[p[1]][col], tbl[p[2]][col])])

\* tbl.nlargest(n, col): the keys of the n first rows of that order
nlargest(n, tbl, col) ==
    LET order == sort_desc(tbl, col)
    IN  SubSeq(order, 1, IF n < Len(order) THEN n ELSE Len(order))

\* x > y on two final_boss_score values, False when one is NaN
score_gt(x, y) == x.k = "sum" /\ y.k = "sum" /\ sum_gt(x, y)

\* normalize counting down from the maximum:
\* (s.max() - s) / (s.max() - s.min() + 1e-10)
normalize_from_max(f) ==
    LET hi == s_max(f)
        range == f_sub(hi, s_min(f))
    IN  [c \in DOMAIN f |->
            LET a == f_sub(hi, f[c])
            IN  IF a.k # "num" THEN FNaN ELSE ENum(a, range)]

\* def normalize(s): return (s - s.min()) / (s.max() - s.min() + 1e-10)
normalize(f) ==
    LET lo == s_min(f)
        range == f_sub(s_max(f), lo)
    IN  [c \in DOMAIN f |->
            LET a == f_sub(f[c], lo)
            IN  IF a.k # "num" THEN FNaN ELSE ENum(a, range)]

\* the score with the four columns weighted equally (0.25 each)
final_boss_score_equal(r) ==
    IF \E x \in {r.norm_ppr, r.norm_finish, r.norm_delta, r.norm_hard} : x.k = "nan"
    THEN FNaN
    ELSE [k |-> "sum",
          terms |-> << e_scale(1, 4, r.norm_ppr), e_scale(1, 4, r.norm_finish),
                       e_scale(1, 4, r.norm_delta), e_scale(1, 4, r.norm_hard) >>]

\* norm_ppr * 0.30 + norm_finish * 0.20 + norm_delta * 0.20 + norm_hard * 0.30
final_boss_score(r) ==
    IF \E x \in {r.norm_ppr, r.norm_finish, r.norm_delta, r.norm_hard} : x.k = "nan"
    THEN FNaN
    ELSE [k |-> "sum",
          terms |-> << e_scale(3, 10, r.norm_ppr), e_scale(2, 10, r.norm_finish),
                       e_scale(2, 10, r.norm_delta), e_scale(3, 10, r.norm_hard) >>]

\* driver_hard without the races filter: the ppr of every (driver, "Hard")
\* group
ppr_hard_any(d) ==
    LET I == tier_rows("driver", d, "Hard")
    IN  IF I # {} THEN mean(I, "points") ELSE FNaN

\* driver_hard: the ppr of the (driver, "Hard") group of driver_diff when
\* the group exists and counts min_races_per_tier races; after the left
\* merge a driver without such a group has NaN
ppr_hard(d) ==
    LET I == tier_rows("driver", d, "Hard")
    IN  IF I # {} /\ count(I, "race_name") >= min_races_per_tier
        THEN mean(I, "points") ELSE FNaN

\* tbl.drop(columns=cols), on one row
drop_columns(row, cols) == [c \in DOMAIN row \ cols |-> row[c]]

\* driver_summary.merge(driver_hard[["driver", "ppr"]].rename(...),
\* on="driver", how="left"): a table that already has a ppr_hard column
\* keeps it as ppr_hard_x and gets the new one as ppr_hard_y
merge_ppr_hard(tbl) ==
    [d \in DOMAIN tbl |->
        IF "ppr_hard" \in DOMAIN tbl[d]
        THEN [ppr_hard_x |-> tbl[d].ppr_hard, ppr_hard_y |-> ppr_hard(d)]
             @@ drop_columns(tbl[d], {"ppr_hard"})
        ELSE [ppr_hard |-> ppr_hard(d)] @@ tbl[d]]

\* the merge without the drop of an earlier ppr_hard column
attach_ppr_hard_keep(tbl) == merge_ppr_hard(tbl)

\* if "ppr_hard" in driver_summary.columns: drop it; then the merge
attach_ppr_hard(tbl) ==
    merge_ppr_hard([d \in DOMAIN tbl |-> drop_columns(tbl[d], {"ppr_hard"})])

\* the driver summary taken whole as the candidate table
candidates_of_unfiltered(tbl) == tbl

\* driver_summary[(races >= 50) & ppr_hard.notna()].copy()
candidates_of(tbl) ==
    [d \in {x \in DOMAIN tbl : /\ tbl[x].races >= MinDriverRaces
                               /\ tbl[x].ppr_hard.k # "nan"}
       |-> tbl[d]]

\* the four normalized columns and final_boss_score added to a candidate
\* table
scored(tbl) ==
    LET norm_ppr == normalize(column(tbl, "points_per_race"))
        norm_finish == normalize(column(tbl, "finish_rate"))
        norm_delta == normalize(column(tbl, "avg_position_delta"))
        norm_hard == normalize(column(tbl, "ppr_hard"))
        normed == [d \in DOMAIN tbl |->
                      [ norm_ppr |-> norm_ppr[d],
                        norm_finish |-> norm_finish[d],
                        norm_delta |-> norm_delta[d],
                        norm_hard |-> norm_hard[d] ] @@ tbl[d]]
    IN  [d \in DOMAIN tbl |->
            [final_boss_score |-> final_boss_score(normed[d])] @@ normed[d]]

\* the ranking with equal scores in reverse table order (keep="last")
candidates_nlargest_last(tbl) ==
    LET keys == sorted_keys(DOMAIN tbl)
        order == sort_keys_desc(
                    [i \in DOMAIN keys |-> keys[Len(keys) + 1 - i]],
                    [k \in DOMAIN tbl |-> tbl[k].final_boss_score.k = "nan"],
                    [p \in (DOMAIN tbl) \X (DOMAIN tbl) |->
                        score_gt(tbl[p[1]].final_boss_score,
                                 tbl[p[2]].final_boss_score)])
    IN  SubSeq(order, 1, IF top_n < Len(order) THEN top_n ELSE Len(order))

\* candidates.nlargest(15, "final_boss_score")
candidates_nlargest(tbl) ==
    LET order == sort_keys_desc(
                    sorted_keys(DOMAIN tbl),
                    [k \in DOMAIN tbl |-> tbl[k].final_boss_score.k = "nan"],
                    [p \in (DOMAIN tbl) \X (DOMAIN tbl) |->
                        score_gt(tbl[p[1]].final_boss_score,
                                 tbl[p[2]].final_boss_score)])
    IN  SubSeq(order, 1, IF top_n < Len(order) THEN top_n ELSE Len(order))

\* ------------------------------------------------------------------ inputs
MaxRows == 4

T_Engine == <<"E","n","g","i","n","e">>
T_Collision == <<"C","o","l","l","i","s","i","o","n">>

\* the status texts of the one-row inputs: the markers, every keyword on
\* its own and in combination, near misses, in several spellings
StatusWords ==
    { T_Finished, T_finished,
      <<"F","i","n","i","s","h","e","d"," ">>,
      <<"N","o","t"," ","F","i","n","i","s","h","e","d">>,
      <<"+","1"," ","L","a","p">>,
      <<"+">>,
      <<"1","+"," ","L","a","p">>,
      <<"+","E","n","g","i","n","e">>,
      <<"+","C","r","a","s","h">>,
      T_Engine,
      <<"G","e","a","r","b","o","x">>,
      <<"H","y","d","r","a","u","l","i","c","s">>,
      <<"E","l","e","c","t","r","i","c","a","l">>,
      <<"T","r","a","n","s","m","i","s","s","i","o","n">>,
      <<"B","r","a","k","e","s">>,
      <<"C","l","u","t","c","h">>,
      <<"S","u","s","p","e","n","s","i","o","n">>,
      <<"P","o","w","e","r"," ","U","n","i","t">>,
      <<"P","o","w","e","r","-","U","n","i","t">>,
      <<"T","u","r","b","o">>,
      <<"A","c","c","i","d","e","n","t">>,
      T_Collision,
      <<"S","p","u","n"," ","o","f","f">>,
      <<"C","r","a","s","h">>,
      <<"E","n","g","i","n","e"," ","c","r","a","s","h">>,
      <<"C","r","a","s","h"," ","b","r","a","k","e">>,
      <<"R","e","t","i","r","e","d">>,
      <<"E","n","g","i","n">>,
      <<"n","a","n">> }

StatusTexts == StatusWords \cup {upper(w) : w \in StatusWords}
                           \cup {lower(w) : w \in StatusWords}

base_row ==
    [ driver |-> Some("d1"),
      driver_dob |-> Some(0),
      driver_nationality |-> Some("n1"),
      constructor_name |-> Some("k1"),
      circuit_name |-> Some("c1"),
      race_name |-> Some("gp1"),
      year |-> Some(2000),
      race_date |-> Some(10958),
      grid_starting_position |-> Some(2),
      final_position |-> NaN,
      status |-> Some(T_Finished),
      points |-> Some(0) ]

\* two rows whose status texts agree up to letter case
status_table(s, fp, g, v) ==
    << [base_row EXCEPT !.status = s, !.final_position = fp,
                        !.grid_starting_position = g],
       [base_row EXCEPT !.status = IF IsNa(s) THEN s
                                  ELSE IF v = "upper" THEN Some(upper(Val(s)))
                                  ELSE IF v = "lower" THEN Some(lower(Val(s)))
                                  ELSE s,
                        !.driver = Some("d2"), !.race_name = Some("gp2")] >>

\* rows that differ in circuit, in whether the driver is recorded and in
\* whether the car finished
tier_row(t) ==
    [base_row EXCEPT
        !.circuit_name = <<Some("c1"), Some("c2"), Some("c3"), NaN>>[(t % 4) + 1],
        !.driver = IF (t \div 4) % 2 = 0 THEN Some("d1") ELSE NaN,
        !.status = IF (t \div 8) % 2 = 0 THEN Some(T_Finished) ELSE Some(T_Engine),
        !.final_position = IF (t \div 8) % 2 = 0 THEN Some(1) ELSE NaN,
        !.points = IF (t \div 8) % 2 = 0 THEN Some(3) ELSE Some(0)]

\* rows that differ in circuit (every car finishes on c1, none on c2), in
\* driver (with constructor, nationality and age) and in final position
agg_row(t) ==
    [base_row EXCEPT
        !.circuit_name = IF t % 2 = 0 THEN Some("c1") ELSE Some("c2"),
        !.status = IF t % 2 = 0 THEN Some(T_Finished) ELSE Some(T_Collision),
        !.driver = IF (t \div 2) % 2 = 0 THEN Some("d1") ELSE Some("d2"),
        !.constructor_name = IF (t \div 2) % 2 = 0 THEN Some("k1") ELSE Some("k2"),
        !.driver_nationality = IF (t \div 2) % 2 = 0 THEN Some("n1") ELSE Some("n2"),
        !.race_date = IF (t \div 2) % 2 = 0 THEN Some(10958) ELSE Some(7671),
        !.final_position = <<NaN, Some(1), Some(2)>>[((t \div 4) % 3) + 1],
        !.points = <<Some(0), Some(5), Some(3)>>[((t \div 4) % 3) + 1]]

\* the non-decreasing sequences of n indices in lo..hi
RECURSIVE sorted_idx(_, _, _)
sorted_idx(n, lo, hi) ==
    IF n = 0 THEN {<< >>}
    ELSE UNION {{<<i>> \o s : s \in sorted_idx(n - 1, i, hi)} : i \in lo..hi}

\* the rows of a driver's career: a win on c1 (t = 0), a collision on c2
\* (t = 1) and a third place on c2 in the following season (t = 2); d1
\* and d2 drive for k1, d3 for k2
MaxDriverRows == 5

career_row(d, t) ==
    [base_row EXCEPT
        !.driver = Some(d),
        !.constructor_name = IF d = "d3" THEN Some("k2") ELSE Some("k1"),
        !.driver_nationality = IF d = "d3" THEN Some("n2") ELSE Some("n1"),
        !.circuit_name = IF t = 0 THEN Some("c1") ELSE Some("c2"),
        !.status = IF t = 1 THEN Some(T_Collision) ELSE Some(T_Finished),
        !.final_position = <<Some(1), NaN, Some(3)>>[t + 1],
        !.points = <<Some(12), Some(0), Some(6)>>[t + 1],
        !.year = IF t = 2 THEN Some(2001) ELSE Some(2000)]

career_of(d, ix) == [i \in DOMAIN ix |-> career_row(d, ix[i])]

\* the careers of the second driver: none; enough races on both tiers
\* but too few in all; a full career with races on both tiers; one with a
\* single win on c1; one of collisions only; one with a single race on
\* c2; two races on c2 and nothing else; a full career of podiums
second_driver ==
    { << >>, <<0, 0, 1, 2>>, <<0, 0, 1, 1, 2>>, <<0, 1, 1, 2, 2>>,
      <<1, 1, 1, 1, 1>>, <<0, 0, 0, 0, 1>>, <<1, 2>>, <<0, 0, 2, 2, 2>> }

\* the careers of the third driver: none, one race, two full careers
third_driver == {<< >>, <<2>>, <<0, 0, 1, 1, 2>>, <<0, 1, 1, 2, 2>>}

\* days between birth and race: a day short of 18 years and the day
\* after, a day short of 40 years and 40 years to the day (14610 days are
\* 40 * 365.25), a day short of 100 years, 100 years to the day, and more
age_days == <<6574, 6575, 14609, 14610, 36524, 36525, 40000>>
MaxAgeRows == 2

\* a row of a driver of that age, or of unknown birth date (t = 0)
age_row(t) ==
    [base_row EXCEPT
        !.driver_dob = IF t = 0 THEN NaN ELSE Some(0),
        !.race_date = IF t = 0 THEN Some(10958) ELSE Some(age_days[t])]

age_table_of(ix) == [i \in DOMAIN ix |-> age_row(ix[i])]

tier_table_of(ix) == [i \in DOMAIN ix |-> tier_row(ix[i])]
agg_table_of(ix) == [i \in DOMAIN ix |-> agg_row(ix[i])]

\* the input file: a pair of rows for the status texts, or up to MaxRows
\* rows for the tiers and for the aggregates, or the careers of up to
\* three drivers, the first with any up to MaxDriverRows rows, or up to
\* MaxAgeRows rows of drivers of different ages
input_file ==
    \/ \E s \in {Some(w) : w \in StatusTexts} \cup {NaN},
          fp \in {NaN, Some(1), Some(3)},
          g \in {NaN, Some(2)},
          v \in {"same", "upper", "lower"} :
          csv = status_table(s, fp, g, v)
    \/ \E n \in 0..MaxRows :
          \E ix \in sorted_idx(n, 0, 15) : csv = tier_table_of(ix)
    \/ \E n \in 0..MaxRows :
          \E ix \in sorted_idx(n, 0, 11) : csv = agg_table_of(ix)
    \/ \E n \in 0..MaxDriverRows :
          \E a \in sorted_idx(n, 0, 2), b \in second_driver, c \in third_driver :
             csv = career_of("d1", a) \o career_of("d2", b) \o career_of("d3", c)
    \/ \E n \in 2..MaxAgeRows :
          \E ix \in sorted_idx(n, 0, Len(age_days)) : csv = age_table_of(ix)

\* ----------------------------------------------------------------- actions
Init ==
    /\ input_file
    /\ df = << >>
    /\ pc = "load"
    /\ error = "none"
    /\ circuit_stats = << >>
    /\ q33 = FNaN
    /\ q66 = FNaN
    /\ big_circuits = << >>
    /\ age_perf = << >>
    /\ driver_summary = << >>
    /\ driver_easy_hard = << >>
    /\ nationality_summary = << >>
    /\ constructor_summary = << >>
    /\ major_constructors = << >>
    /\ experienced = << >>
    /\ df_nat = << >>
    /\ constructor_easy_hard = << >>
    /\ candidates = << >>
    /\ top_15 = << >>
    /\ winner = NaN
    /\ top_hard = << >>
    /\ top_ppr = << >>
    /\ nationality_filtered = << >>
    /\ top_tank = << >>
    /\ h2_finding = NaN
    /\ run = 1
    /\ first = NaN

\* the number of times the script is run on the loaded file
MaxRuns == 2

\* everything a run of the script has computed
outputs ==
    [ df |-> df, circuit_stats |-> circuit_stats, q33 |-> q33, q66 |-> q66,
      big_circuits |-> big_circuits, age_perf |-> age_perf,
      driver_summary |-> driver_summary, driver_easy_hard |-> driver_easy_hard,
      nationality_summary |-> nationality_summary,
      constructor_summary |-> constructor_summary,
      major_constructors |-> major_constructors, experienced |-> experienced,
      df_nat |-> df_nat, constructor_easy_hard |-> constructor_easy_hard,
      candidates |-> candidates, top_15 |-> top_15, winner |-> winner,
      top_hard |-> top_hard, top_ppr |-> top_ppr,
      nationality_filtered |-> nationality_filtered, top_tank |-> top_tank,
      h2_finding |-> h2_finding ]

\* an uncaught exception ends the script run
raise(e) == pc' = "raised" /\ error' = e
goto(l) == pc' = l /\ error' = error

\* df = load_and_process_data()
LoadAndProcess ==
    /\ pc = "load"
    /\ df' = [i \in 1..Len(csv) |-> process_row(csv[i])]
    /\ goto("circuit_stats")
    /\ UNCHANGED <<csv, circuit_stats, q33, q66, big_circuits, age_perf,
                   driver_summary, driver_easy_hard, nationality_summary,
                   constructor_summary, major_constructors, experienced,
                   df_nat, constructor_easy_hard, candidates, top_15, winner,
                   top_hard, top_ppr, nationality_filtered, top_tank,
                   h2_finding, run, first>>

\* circuit_stats = df.groupby("circuit_name").agg(...); dnf_rate
CircuitStats ==
    /\ pc = "circuit_stats"
    /\ circuit_stats' = [c \in group_keys("circuit_name") |-> circuit_agg(c)]
    /\ goto("tiers")
    /\ UNCHANGED <<csv, df, q33, q66, big_circuits, age_perf, driver_summary,
                   driver_easy_hard, nationality_summary,
                   constructor_summary, major_constructors, experienced,
                   df_nat, constructor_easy_hard, candidates, top_15, winner,
                   top_hard, top_ppr, nationality_filtered, top_tank,
                   h2_finding, run, first>>

\* q33, q66 = quantile([0.33, 0.66]); circuit_stats["difficulty"]
DifficultyTiers ==
    /\ pc = "tiers"
    /\ \E lo \in quantile(tier_basis, 33), hi \in quantile(tier_basis, 66) :
          /\ q33' = lo
          /\ q66' = hi
          /\ circuit_stats' =
                [c \in DOMAIN circuit_stats |->
                    circuit_stats[c] @@
                    [difficulty |-> tier(circuit_stats[c].dnf_rate, lo, hi)]]
    /\ goto("big_circuits")
    /\ UNCHANGED <<csv, df, big_circuits, age_perf, driver_summary,
                   driver_easy_hard, nationality_summary,
                   constructor_summary, major_constructors, experienced,
                   df_nat, constructor_easy_hard, candidates, top_15, winner,
                   top_hard, top_ppr, nationality_filtered, top_tank,
                   h2_finding, run, first>>

\* big_circuits = circuit_stats[circuit_stats["entries"] >= 500].copy();
\* top_hard = big_circuits.nlargest(10, "dnf_rate")
BigCircuits ==
    /\ pc = "big_circuits"
    /\ big_circuits' = at_least(circuit_stats, "entries", MinCircuitEntries)
    /\ top_hard' = nlargest(board_n, big_circuits', "dnf_rate")
    /\ goto("circuit_finding")
    /\ UNCHANGED <<csv, df, circuit_stats, q33, q66, age_perf,
                   driver_summary, driver_easy_hard, nationality_summary,
                   constructor_summary, major_constructors, experienced,
                   df_nat, constructor_easy_hard, candidates, top_15, winner,
                   top_ppr, nationality_filtered, top_tank, h2_finding, run,
                   first>>

\* hardest = big_circuits.nlargest(1, "dnf_rate"); hardest.index[0]
CircuitFinding ==
    /\ pc = "circuit_finding"
    /\ IF DOMAIN big_circuits = {} THEN raise("IndexError") ELSE goto("merge")
    /\ UNCHANGED <<csv, df, circuit_stats, q33, q66, big_circuits, age_perf,
                   driver_summary, driver_easy_hard, nationality_summary,
                   constructor_summary, major_constructors, experienced,
                   df_nat, constructor_easy_hard, candidates, top_15, winner,
                   top_hard, top_ppr, nationality_filtered, top_tank,
                   h2_finding, run, first>>

\* df = df.merge(circuit_stats[["dnf_rate", "difficulty"]].reset_index(), ...)
MergeDifficulty ==
    /\ pc = "merge"
    /\ df' = merge_left(df, tier_table(circuit_stats))
    /\ goto("age_bin")
    /\ UNCHANGED <<csv, circuit_stats, q33, q66, big_circuits, age_perf,
                   driver_summary, driver_easy_hard, nationality_summary,
                   constructor_summary, major_constructors, experienced,
                   df_nat, constructor_easy_hard, candidates, top_15, winner,
                   top_hard, top_ppr, nationality_filtered, top_tank,
                   h2_finding, run, first>>

\* df["age_bin"] = pd.cut(df["age_years"], ...)
AgeBin ==
    /\ pc = "age_bin"
    /\ df' = [i \in 1..Len(df) |-> with_age_bin(df[i])]
    /\ goto("age_perf")
    /\ UNCHANGED <<csv, circuit_stats, q33, q66, big_circuits, age_perf,
                   driver_summary, driver_easy_hard, nationality_summary,
                   constructor_summary, major_constructors, experienced,
                   df_nat, constructor_easy_hard, candidates, top_15, winner,
                   top_hard, top_ppr, nationality_filtered, top_tank,
                   h2_finding, run, first>>

\* age_perf = df.groupby("age_bin", observed=True).agg(...); win_rate
AgePerf ==
    /\ pc = "age_perf"
    /\ age_perf' = [b \in group_keys("age_bin") |-> age_agg(b)]
    /\ goto("h1_finding")
    /\ UNCHANGED <<csv, df, circuit_stats, q33, q66, big_circuits,
                   driver_summary, driver_easy_hard, nationality_summary,
                   constructor_summary, major_constructors, experienced,
                   df_nat, constructor_easy_hard, candidates, top_15, winner,
                   top_hard, top_ppr, nationality_filtered, top_tank,
                   h2_finding, run, first>>

\* prime_age = age_perf.loc[age_perf["win_rate"].idxmax()]: idxmax has no
\* label to return when the column is empty or all NaN, and the lookup
\* fails (the exception is recorded as ValueError in both cases)
H1Finding ==
    /\ pc = "h1_finding"
    /\ IF \A b \in DOMAIN age_perf : age_perf[b].win_rate.k = "nan"
       THEN raise("ValueError")
       ELSE goto("driver_summary")
    /\ UNCHANGED <<csv, df, circuit_stats, q33, q66, big_circuits, age_perf,
                   driver_summary, driver_easy_hard, nationality_summary,
                   constructor_summary, major_constructors, experienced,
                   df_nat, constructor_easy_hard, candidates, top_15, winner,
                   top_hard, top_ppr, nationality_filtered, top_tank,
                   h2_finding, run, first>>

\* driver_summary = df.groupby("driver").agg(...).reset_index(); win_rate
DriverSummary ==
    /\ pc = "driver_summary"
    /\ driver_summary' = [d \in group_keys("driver") |-> driver_agg(d)]
    /\ goto("experienced")
    /\ UNCHANGED <<csv, df, circuit_stats, q33, q66, big_circuits, age_perf,
                   driver_easy_hard, nationality_summary,
                   constructor_summary, major_constructors, experienced,
                   df_nat, constructor_easy_hard, candidates, top_15, winner,
                   top_hard, top_ppr, nationality_filtered, top_tank,
                   h2_finding, run, first>>

\* experienced = driver_summary[driver_summary["races"] >= 50].copy();
\* top_ppr = experienced.nlargest(10, "points_per_race")
Experienced ==
    /\ pc = "experienced"
    /\ experienced' = at_least(driver_summary, "races", MinDriverRaces)
    /\ top_ppr' = nlargest(board_n, experienced', "points_per_race")
    /\ goto("driver_easy_hard")
    /\ UNCHANGED <<csv, df, circuit_stats, q33, q66, big_circuits, age_perf,
                   driver_summary, driver_easy_hard, nationality_summary,
                   constructor_summary, major_constructors, df_nat,
                   constructor_easy_hard, candidates, top_15, winner,
                   top_hard, nationality_filtered, top_tank, h2_finding, run,
                   first>>

\* driver_diff, driver_pivot, drivers_both, driver_easy_hard: the pivot has
\* a column per tier that occurs, and dropna(subset=["Easy", "Hard"]) needs
\* both columns
DriverEasyHard ==
    /\ pc = "driver_easy_hard"
    /\ IF {"Easy", "Hard"} \subseteq pivot_columns("driver")
       THEN /\ driver_easy_hard' = driver_easy_hard_tbl
            /\ goto("h2_finding")
       ELSE /\ driver_easy_hard' = driver_easy_hard
            /\ raise("KeyError")
    /\ UNCHANGED <<csv, df, circuit_stats, q33, q66, big_circuits, age_perf,
                   driver_summary, nationality_summary, constructor_summary,
                   major_constructors, experienced, df_nat,
                   constructor_easy_hard, candidates, top_15, winner,
                   top_hard, top_ppr, nationality_filtered, top_tank,
                   h2_finding, run, first>>

\* best_hard = driver_easy_hard.nlargest(1, "Hard").iloc[0]
H2Finding ==
    /\ pc = "h2_finding"
    /\ IF DOMAIN driver_easy_hard = {}
       THEN raise("IndexError")
       ELSE goto("constructor_season")
    /\ UNCHANGED <<csv, df, circuit_stats, q33, q66, big_circuits, age_perf,
                   driver_summary, driver_easy_hard, nationality_summary,
                   constructor_summary, major_constructors, experienced,
                   df_nat, constructor_easy_hard, candidates, top_15, winner,
                   top_hard, top_ppr, nationality_filtered, top_tank,
                   h2_finding, run, first>>

\* constructor_season, constructor_ppr; df_nat = df.copy().merge(...);
\* df_nat["normalized_points"]
ConstructorSeason ==
    /\ pc = "constructor_season"
    /\ df_nat' = [i \in 1..Len(df) |-> nat_row(df[i])]
    /\ goto("nationality")
    /\ UNCHANGED <<csv, df, circuit_stats, q33, q66, big_circuits, age_perf,
                   driver_summary, driver_easy_hard, nationality_summary,
                   constructor_summary, major_constructors, experienced,
                   constructor_easy_hard, candidates, top_15, winner,
                   top_hard, top_ppr, nationality_filtered, top_tank,
                   h2_finding, run, first>>

\* nationality_summary = df_nat.groupby("driver_nationality").agg(...);
\* nationality_filtered = nationality_summary[races >= 100], sorted by
\* avg_normalized_points, largest first
NationalitySummary ==
    /\ pc = "nationality"
    /\ nationality_summary' =
          [n \in group_keys("driver_nationality") |-> nationality_agg(n)]
    /\ nationality_filtered' =
          sort_desc(at_least(nationality_summary', "races", MinNationalityRaces),
                    "avg_normalized_points")
    /\ goto("h4_finding")
    /\ UNCHANGED <<csv, df, circuit_stats, q33, q66, big_circuits, age_perf,
                   driver_summary, driver_easy_hard, constructor_summary,
                   major_constructors, experienced, df_nat,
                   constructor_easy_hard, candidates, top_15, winner,
                   top_hard, top_ppr, top_tank, h2_finding, run, first>>

\* top_nationality = nationality_filtered.index[0]
H4Finding ==
    /\ pc = "h4_finding"
    /\ IF Len(nationality_filtered) = 0
       THEN raise("IndexError")
       ELSE goto("constructor_summary")
    /\ UNCHANGED <<csv, df, circuit_stats, q33, q66, big_circuits, age_perf,
                   driver_summary, driver_easy_hard, nationality_summary,
                   constructor_summary, major_constructors, experienced,
                   df_nat, constructor_easy_hard, candidates, top_15, winner,
                   top_hard, top_ppr, nationality_filtered, top_tank,
                   h2_finding, run, first>>

\* constructor_summary = df.groupby("constructor_name").agg(...);
\* major_constructors = constructor_summary[races >= 100] with tank_score
ConstructorSummary ==
    /\ pc = "constructor_summary"
    /\ LET summary == [c \in group_keys("constructor_name") |-> constructor_agg(c)]
           major == at_least(summary, "races", MinConstructorRaces)
       IN  /\ constructor_summary' = summary
           /\ major_constructors' =
                 [c \in DOMAIN major |->
                     major[c] @@
                     [tank_score |-> f_mul(major[c].points_per_race,
                                           major[c].finish_rate)]]
    /\ goto("tank_finding")
    /\ UNCHANGED <<csv, df, circuit_stats, q33, q66, big_circuits, age_perf,
                   driver_summary, driver_easy_hard, nationality_summary,
                   experienced, df_nat, constructor_easy_hard, candidates,
                   top_15, winner, top_hard, top_ppr, nationality_filtered,
                   top_tank, h2_finding, run, first>>

\* best = major_constructors.nlargest(1, "tank_score").iloc[0];
\* top_tank = major_constructors.nlargest(10, "tank_score")
TankFinding ==
    /\ pc = "tank_finding"
    /\ IF DOMAIN major_constructors = {}
       THEN /\ top_tank' = top_tank
            /\ raise("IndexError")
       ELSE /\ top_tank' = nlargest(board_n, major_constructors, "tank_score")
            /\ goto("constructor_easy_hard")
    /\ UNCHANGED <<csv, df, circuit_stats, q33, q66, big_circuits, age_perf,
                   driver_summary, driver_easy_hard, nationality_summary,
                   constructor_summary, major_constructors, experienced,
                   df_nat, constructor_easy_hard, candidates, top_15, winner,
                   top_hard, top_ppr, nationality_filtered, h2_finding, run,
                   first>>

\* constructor_diff, constructor_pivot, constructors_both,
\* constructor_easy_hard: dropna(subset=["Easy", "Hard"]) needs both columns
ConstructorEasyHard ==
    /\ pc = "constructor_easy_hard"
    /\ IF {"Easy", "Hard"} \subseteq pivot_columns("constructor_name")
       THEN /\ constructor_easy_hard' = constructor_easy_hard_tbl
            /\ goto("h3_finding")
       ELSE /\ constructor_easy_hard' = constructor_easy_hard
            /\ raise("KeyError")
    /\ UNCHANGED <<csv, df, circuit_stats, q33, q66, big_circuits, age_perf,
                   driver_summary, driver_easy_hard, nationality_summary,
                   constructor_summary, major_constructors, experienced,
                   df_nat, candidates, top_15, winner, top_hard, top_ppr,
                   nationality_filtered, top_tank, h2_finding, run, first>>

\* best_hard_constructor = constructor_easy_hard.nlargest(1, "Hard").iloc[0]
H3Finding ==
    /\ pc = "h3_finding"
    /\ IF DOMAIN constructor_easy_hard = {}
       THEN raise("IndexError")
       ELSE goto("hard_ppr")
    /\ UNCHANGED <<csv, df, circuit_stats, q33, q66, big_circuits, age_perf,
                   driver_summary, driver_easy_hard, nationality_summary,
                   constructor_summary, major_constructors, experienced,
                   df_nat, constructor_easy_hard, candidates, top_15, winner,
                   top_hard, top_ppr, nationality_filtered, top_tank,
                   h2_finding, run, first>>

\* driver_diff, driver_hard; driver_summary = driver_summary.merge(
\* driver_hard[["driver", "ppr"]].rename(columns={"ppr": "ppr_hard"}), ...)
HardPpr ==
    /\ pc = "hard_ppr"
    /\ driver_summary' = attach_ppr_hard(driver_summary)
    /\ goto("candidates")
    /\ UNCHANGED <<csv, df, circuit_stats, q33, q66, big_circuits, age_perf,
                   driver_easy_hard, nationality_summary,
                   constructor_summary, major_constructors, experienced,
                   df_nat, constructor_easy_hard, candidates, top_15, winner,
                   top_hard, top_ppr, nationality_filtered, top_tank,
                   h2_finding, run, first>>

\* candidates = driver_summary[(races >= 50) & ppr_hard.notna()].copy()
Candidates ==
    /\ pc = "candidates"
    /\ candidates' = candidates_of(driver_summary)
    /\ goto("score")
    /\ UNCHANGED <<csv, df, circuit_stats, q33, q66, big_circuits, age_perf,
                   driver_summary, driver_easy_hard, nationality_summary,
                   constructor_summary, major_constructors, experienced,
                   df_nat, constructor_easy_hard, top_15, winner, top_hard,
                   top_ppr, nationality_filtered, top_tank, h2_finding, run,
                   first>>

\* candidates["norm_ppr"] ... candidates["final_boss_score"]
Score ==
    /\ pc = "score"
    /\ candidates' = scored(candidates)
    /\ goto("top_15")
    /\ UNCHANGED <<csv, df, circuit_stats, q33, q66, big_circuits, age_perf,
                   driver_summary, driver_easy_hard, nationality_summary,
                   constructor_summary, major_constructors, experienced,
                   df_nat, constructor_easy_hard, top_15, winner, top_hard,
                   top_ppr, nationality_filtered, top_tank, h2_finding, run,
                   first>>

\* top_15 = candidates.nlargest(15, "final_boss_score")
Top15 ==
    /\ pc = "top_15"
    /\ top_15' = candidates_nlargest(candidates)
    /\ goto("winner")
    /\ UNCHANGED <<csv, df, circuit_stats, q33, q66, big_circuits, age_perf,
                   driver_summary, driver_easy_hard, nationality_summary,
                   constructor_summary, major_constructors, experienced,
                   df_nat, constructor_easy_hard, candidates, winner,
                   top_hard, top_ppr, nationality_filtered, top_tank,
                   h2_finding, run, first>>

\* winner = top_15.iloc[0]
Winner ==
    /\ pc = "winner"
    /\ IF Len(top_15) = 0
       THEN /\ winner' = winner
            /\ raise("IndexError")
       ELSE /\ winner' = Some([driver |-> top_15[1]] @@ candidates[top_15[1]])
            /\ goto("conclusion")
    /\ UNCHANGED <<csv, df, circuit_stats, q33, q66, big_circuits, age_perf,
                   driver_summary, driver_easy_hard, nationality_summary,
                   constructor_summary, major_constructors, experienced,
                   df_nat, constructor_easy_hard, candidates, top_15,
                   top_hard, top_ppr, nationality_filtered, top_tank,
                   h2_finding, run, first>>

\* h2_finding = f"{winner['driver']} leads hard-track PPR"
Conclusion ==
    /\ pc = "conclusion"
    /\ h2_finding' = Some(Val(winner).driver)
    /\ goto("done")
    /\ UNCHANGED <<csv, df, circuit_stats, q33, q66, big_circuits, age_perf,
                   driver_summary, driver_easy_hard, nationality_summary,
                   constructor_summary, major_constructors, experienced,
                   df_nat, constructor_easy_hard, candidates, top_15, winner,
                   top_hard, top_ppr, nationality_filtered, top_tank, run,
                   first>>

\* the script run again (Streamlit reruns it from the top with fresh
\* names; load_and_process_data returns the cached table): the results of
\* the finished run are kept aside in first
Rerun ==
    /\ pc = "done"
    /\ run < MaxRuns
    /\ run' = run + 1
    /\ first' = Some(outputs)
    /\ pc' = "load"
    /\ error' = "none"
    /\ df' = << >>
    /\ circuit_stats' = << >>
    /\ q33' = FNaN
    /\ q66' = FNaN
    /\ big_circuits' = << >>
    /\ age_perf' = << >>
    /\ driver_summary' = << >>
    /\ driver_easy_hard' = << >>
    /\ nationality_summary' = << >>
    /\ constructor_summary' = << >>
    /\ major_constructors' = << >>
    /\ experienced' = << >>
    /\ df_nat' = << >>
    /\ constructor_easy_hard' = << >>
    /\ candidates' = << >>
    /\ top_15' = << >>
    /\ winner' = NaN
    /\ top_hard' = << >>
    /\ top_ppr' = << >>
    /\ nationality_filtered' = << >>
    /\ top_tank' = << >>
    /\ h2_finding' = NaN
    /\ UNCHANGED csv

Next ==
    \/ LoadAndProcess
    \/ CircuitStats
    \/ DifficultyTiers
    \/ BigCircuits
    \/ CircuitFinding
    \/ MergeDifficulty
    \/ AgeBin
    \/ AgePerf
    \/ H1Finding
    \/ DriverSummary
    \/ Experienced
    \/ DriverEasyHard
    \/ H2Finding
    \/ ConstructorSeason
    \/ NationalitySummary
    \/ H4Finding
    \/ ConstructorSummary
    \/ TankFinding
    \/ ConstructorEasyHard
    \/ H3Finding
    \/ HardPpr
    \/ Candidates
    \/ Score
    \/ Top15
    \/ Winner
    \/ Conclusion
    \/ Rerun

Spec == Init /\ [][Next]_vars

\* ================================================================= claims
Loaded == pc # "load"
\* the state in which load_and_process_data has just returned the table
Normalized == pc = "circuit_stats"
TiersDone == pc \notin {"load", "circuit_stats", "tiers"}
Tiers == {"Easy", "Medium", "Hard"}
T_Lapped == <<"+","1"," ","L","a","p">>

\* C1: the finished flag of a row is true exactly when its status text is
\* "Finished" or begins with "+"; "Finished" and "+1 Lap" are finished,
\* "Engine" is not, and a missing status is not.
C1_FinishedFlag ==
    Normalized =>
        \A i \in DOMAIN df :
            LET st == df[i].status
            IN  /\ df[i].finished =
                      (/\ ~IsNa(st)
                       /\ \/ Val(st) = T_Finished
                          \/ (Len(Val(st)) >= 1 /\ Val(st)[1] = "+"))
                /\ st = Some(T_Finished) => df[i].finished
                /\ st = Some(T_Lapped) => df[i].finished
                /\ st = Some(T_Engine) => ~df[i].finished
                /\ IsNa(st) => ~df[i].finished

C1_Witness ==
    /\ Normalized
    /\ \E i \in DOMAIN df : df[i].status = Some(T_Lapped) /\ df[i].finished
    /\ \E i \in DOMAIN df : df[i].status = Some(lower(T_Lapped))

\* C2: the status category of a row is one of the four categories, is the
\* same for rows with the same status text, and does not change when the
\* letter case of the text is changed.
C2_ClassifyCaseInsensitive ==
    Normalized =>
        \A i \in DOMAIN df :
            /\ df[i].status_category \in Categories
            /\ df[i].status_category = classify_status(Some(upper(str(df[i].status))))
            /\ df[i].status_category = classify_status(Some(lower(str(df[i].status))))
            /\ \A j \in DOMAIN df :
                  lower(str(df[j].status)) = lower(str(df[i].status))
                  => df[j].status_category = df[i].status_category

C2_Witness ==
    /\ Normalized
    /\ \E i, j \in DOMAIN df :
          /\ df[i].status # df[j].status
          /\ lower(str(df[i].status)) = lower(str(df[j].status))
          /\ df[i].status_category = "Mechanical DNF"
          /\ df[j].status_category = "Mechanical DNF"

\* C3: a row's status category is Finished exactly when its finished flag
\* is true.
C3_FinishedCategoryIffFlag ==
    Normalized =>
        \A i \in DOMAIN df :
            (df[i].status_category = "Finished") <=> df[i].finished

has_keyword(s, keys) == \E k \in keys : contains(s, k)
finished_rule(s) == s = T_finished \/ startswith(s, T_plus)

\* C4: the rules apply in the order Finished, Mechanical DNF, Accident,
\* Other DNF and the first match wins: a text starting with "+" is Finished
\* whatever keyword it holds, and a non-finished text with a mechanical and
\* an accident keyword is Mechanical DNF.
C4_FirstMatchWins ==
    Normalized =>
        \A i \in DOMAIN df :
            LET s == lower(str(df[i].status))
                cat == df[i].status_category
                mech == has_keyword(s, mech_keywords)
                acc == has_keyword(s, accident_keywords)
            IN  /\ finished_rule(s) => cat = "Finished"
                /\ (~finished_rule(s) /\ mech) => cat = "Mechanical DNF"
                /\ (~finished_rule(s) /\ ~mech /\ acc) => cat = "Accident"
                /\ (~finished_rule(s) /\ ~mech /\ ~acc) => cat = "Other DNF"

C4_Witness ==
    /\ Normalized
    /\ \E i \in DOMAIN df :
          LET s == lower(str(df[i].status))
          IN  /\ has_keyword(s, mech_keywords)
              /\ has_keyword(s, accident_keywords)
              /\ ~finished_rule(s)
              /\ df[i].status_category = "Mechanical DNF"

\* the keyword list as the claim words it (with "power-unit")
claimed_mech_keywords ==
    { <<"e","n","g","i","n","e">>,
      <<"g","e","a","r","b","o","x">>,
      <<"h","y","d","r","a","u","l","i","c","s">>,
      <<"e","l","e","c","t","r","i","c","a","l">>,
      <<"t","r","a","n","s","m","i","s","s","i","o","n">>,
      <<"b","r","a","k","e">>,
      <<"c","l","u","t","c","h">>,
      <<"s","u","s","p","e","n","s","i","o","n">>,
      <<"p","o","w","e","r","-","u","n","i","t">>,
      <<"t","u","r","b","o">> }

\* the same list with the keyword spelt "power unit"
amended_mech_keywords ==
    (claimed_mech_keywords \ {<<"p","o","w","e","r","-","u","n","i","t">>})
    \cup {<<"p","o","w","e","r"," ","u","n","i","t">>}

\* C5 as claimed: a text that does not match the finished rule and holds
\* one of engine, gearbox, hydraulics, electrical, transmission, brake,
\* clutch, suspension, power-unit, turbo is Mechanical DNF.
C5_ClaimedKeywords ==
    Normalized =>
        \A i \in DOMAIN df :
            LET s == lower(str(df[i].status))
            IN  (~finished_rule(s) /\ has_keyword(s, claimed_mech_keywords))
                => df[i].status_category = "Mechanical DNF"

\* C5 amended: a text that does not match the finished rule and holds one
\* of engine, gearbox, hydraulics, electrical, transmission, brake, clutch,
\* suspension, "power unit" (with a space), turbo is Mechanical DNF.
C5_MechanicalKeywords ==
    Normalized =>
        \A i \in DOMAIN df :
            LET s == lower(str(df[i].status))
            IN  (~finished_rule(s) /\ has_keyword(s, amended_mech_keywords))
                => df[i].status_category = "Mechanical DNF"

C5_Witness ==
    /\ Normalized
    /\ \E i \in DOMAIN df :
          /\ contains(lower(str(df[i].status)), <<"p","o","w","e","r"," ","u","n","i","t">>)
          /\ df[i].status # Some(<<"p","o","w","e","r"," ","u","n","i","t">>)
          /\ df[i].status_category = "Mechanical DNF"

\* the rows of df, by position, that belong to a group and hold a real 1
\* as final position
real_wins(col, key) ==
    Cardinality({i \in DOMAIN df :
                    /\ df[i][col] = Some(key)
                    /\ df[i].final_position # NaN
                    /\ df[i].final_position = Some(1)})

\* C6: position_delta is grid minus final position where the final
\* position is present and missing where it is missing, and the wins of
\* every age bucket, driver and constructor count only rows whose final
\* position is present (and equal to 1).
C6_MissingFinalPosition ==
    Loaded =>
        /\ \A i \in DOMAIN df :
              IF df[i].final_position = NaN
              THEN df[i].position_delta = NaN
              ELSE df[i].position_delta =
                      (IF df[i].grid_starting_position = NaN THEN NaN
                       ELSE Some(df[i].grid_starting_position[1]
                                 - df[i].final_position[1]))
        /\ \A b \in DOMAIN age_perf :
              age_perf[b].wins = real_wins("age_bin", b)
        /\ \A d \in DOMAIN driver_summary :
              driver_summary[d].wins = real_wins("driver", d)
        /\ \A c \in DOMAIN constructor_summary :
              constructor_summary[c].wins = real_wins("constructor_name", c)

C6_Witness ==
    /\ pc = "tank_finding"
    /\ \E i, j \in DOMAIN df :
          /\ df[i].final_position = NaN
          /\ df[i].position_delta = NaN
          /\ df[j].final_position = Some(1)
          /\ df[j].driver = df[i].driver
          /\ df[j].age_bin = df[i].age_bin
          /\ df[j].constructor_name = df[i].constructor_name
          /\ constructor_summary[Val(df[i].constructor_name)].wins = 1

rate_of(c) == circuit_stats[c].dnf_rate
defined_rate(c) == rate_of(c).k # "nan"

\* C7: every circuit of the table gets exactly one tier out of Easy,
\* Medium, Hard; no Hard circuit has a smaller dnf_rate than a Medium
\* circuit and no Medium circuit a smaller one than an Easy circuit (over
\* the circuits that have a dnf_rate: NaN is not ordered).
C7_TierPartition ==
    TiersDone =>
        /\ DOMAIN circuit_stats =
              {df[i].circuit_name[1] : i \in {j \in DOMAIN df : df[j].circuit_name # NaN}}
        /\ \A c \in DOMAIN circuit_stats : circuit_stats[c].difficulty \in Tiers
        /\ \A h, m \in DOMAIN circuit_stats :
              (/\ defined_rate(h) /\ defined_rate(m)
               /\ \/ circuit_stats[h].difficulty = "Hard"
                     /\ circuit_stats[m].difficulty = "Medium"
                  \/ circuit_stats[h].difficulty = "Medium"
                     /\ circuit_stats[m].difficulty = "Easy"
                  \/ circuit_stats[h].difficulty = "Hard"
                     /\ circuit_stats[m].difficulty = "Easy")
              => f_ge(rate_of(h), rate_of(m))

C7_Witness ==
    /\ TiersDone
    /\ \E e, m, h \in DOMAIN circuit_stats :
          /\ circuit_stats[e].difficulty = "Easy"
          /\ circuit_stats[m].difficulty = "Medium"
          /\ circuit_stats[h].difficulty = "Hard"
          /\ rate_of(e).k = "num" /\ rate_of(m).k = "num" /\ rate_of(h).k = "num"

\* C8: the thresholds are the 33rd and 66th percentile of dnf_rate over
\* all circuits whatever their entries; a circuit is Easy when its rate is
\* <= q33, Medium when q33 < rate <= q66 and Hard when rate > q66; this
\* stays so after the entries filter, and circuits below the filter's
\* threshold have a tier.
C8_TierThresholds ==
    TiersDone =>
        /\ q33 \in quantile([c \in DOMAIN circuit_stats |-> rate_of(c)], 33)
        /\ q66 \in quantile([c \in DOMAIN circuit_stats |-> rate_of(c)], 66)
        /\ \A c \in DOMAIN circuit_stats :
              /\ f_le(rate_of(c), q33) => circuit_stats[c].difficulty = "Easy"
              /\ (f_lt(q33, rate_of(c)) /\ f_le(rate_of(c), q66))
                    => circuit_stats[c].difficulty = "Medium"
              /\ f_gt(rate_of(c), q66) => circuit_stats[c].difficulty = "Hard"
              /\ circuit_stats[c].entries < MinCircuitEntries
                    => circuit_stats[c].difficulty \in Tiers
        /\ \A c \in DOMAIN big_circuits : big_circuits[c] = circuit_stats[c]

C8_Witness ==
    /\ pc = "merge"
    /\ \E c \in DOMAIN circuit_stats :
          /\ c \notin DOMAIN big_circuits
          /\ circuit_stats[c].entries = 1
          /\ circuit_stats[c].difficulty = "Hard"
    /\ \E c \in DOMAIN big_circuits : circuit_stats[c].difficulty = "Easy"
    /\ q33.k = "num" /\ q33.n > 0

\* C9: a circuit with zero counted entries receives no difficulty tier.
C9_ZeroEntryNoTier ==
    TiersDone =>
        \A c \in DOMAIN circuit_stats :
            circuit_stats[c].entries = 0
            => circuit_stats[c].difficulty \notin Tiers

\* the columns the table has before the tier join
base_columns ==
    {"driver", "driver_dob", "driver_nationality", "constructor_name",
     "circuit_name", "race_name", "year", "race_date",
     "grid_starting_position", "final_position", "status", "points",
     "age_years", "finished", "status_category", "position_delta"}

\* C10: after the tier join the table has the rows it had before, in the
\* same number and order, and each row carries the tier of its circuit as
\* difficulty (none for a row without circuit).
C10_TierJoin ==
    Loaded =>
        /\ Len(df) = Len(csv)
        /\ \A i \in DOMAIN df :
              /\ \A col \in base_columns \ {"age_years", "finished",
                                            "status_category", "position_delta"} :
                    df[i][col] = csv[i][col]
              /\ "difficulty" \in DOMAIN df[i] =>
                    IF df[i].circuit_name = NaN
                    THEN df[i].difficulty = NaN
                    ELSE df[i].difficulty =
                            Some(circuit_stats[df[i].circuit_name[1]].difficulty)

C10_Witness ==
    /\ pc = "age_bin"
    /\ Len(df) = Len(csv)
    /\ \E i, j, k \in DOMAIN df :
          /\ df[i].difficulty = Some("Easy")
          /\ df[j].difficulty = Some("Hard")
          /\ df[k].circuit_name = NaN
          /\ df[k].difficulty = NaN
          /\ k < j

\* the rows of a driver in the table, and those on Hard circuits
career_rows(d) == {i \in DOMAIN df : df[i].driver = Some(d)}
hard_rows(d) == {i \in career_rows(d) : df[i].difficulty = Some("Hard")}
ranked == {top_15[i] : i \in DOMAIN top_15}

\* C11: every driver of the candidate table has at least MinDriverRaces
\* (50) rows in all and at least min_races_per_tier (10) rows on Hard
\* circuits, and a ppr_hard that is a number; the ranked list and the
\* winner are taken from the candidate table.
C11_CandidateFilter ==
    /\ \A d \in DOMAIN candidates :
          /\ Cardinality(career_rows(d)) >= MinDriverRaces
          /\ Cardinality(hard_rows(d)) >= min_races_per_tier
          /\ candidates[d].ppr_hard.k = "num"
    /\ ranked \subseteq DOMAIN candidates
    /\ winner # NaN => Val(winner).driver \in DOMAIN candidates

C11_Witness ==
    /\ pc = "done"
    /\ \E d, x, y \in DOMAIN driver_summary :
          /\ d \in ranked
          /\ x \notin DOMAIN candidates
          /\ Cardinality(career_rows(x)) >= MinDriverRaces
          /\ Cardinality(hard_rows(x)) = min_races_per_tier - 1
          /\ hard_rows(x) # {}
          /\ y \notin DOMAIN candidates
          /\ Cardinality(career_rows(y)) < MinDriverRaces
          /\ Cardinality(hard_rows(y)) >= min_races_per_tier

\* the states in which the candidate table carries its scores
Scored == pc \in {"top_15", "winner", "conclusion", "done"}
norm_columns ==
    { <<"points_per_race", "norm_ppr">>, <<"finish_rate", "norm_finish">>,
      <<"avg_position_delta", "norm_delta">>, <<"ppr_hard", "norm_hard">> }
Zero == ERat(0, 1)
One == ERat(1, 1)
in_unit(x) == x.k = "eps" /\ e_le(Zero, x) /\ e_le(x, One)
\* 1 up to a term proportional to the 1e-10 of normalize: x = r / (r + eps)
\* with r > 0
near_one(x) == x.k = "eps" /\ x.d > 0 /\ x.n = x.m * x.d

\* C12: each of the four normalized columns of every scored candidate
\* lies in [0,1]; the candidate that holds the maximum of a column maps to
\* 1.0 (up to the epsilon) and the one that holds the minimum to 0.0.
C12_NormBounds ==
    Scored =>
        \A d \in DOMAIN candidates, p \in norm_columns :
            LET col == column(candidates, p[1])
                x == candidates[d][p[2]]
            IN  /\ in_unit(x)
                /\ col[d] = s_max(col) => near_one(x)
                /\ col[d] = s_min(col) => x = Zero

\* C13: every candidate of the scored table has a composite score that is
\* a number (not null, not infinite), also when a column has zero range
\* and when some or all of the candidate's rows have no position_delta.
C13_DefinedScore ==
    Scored =>
        \A d \in DOMAIN candidates : candidates[d].final_boss_score.k = "sum"

metrics == {"points_per_race", "finish_rate", "avg_position_delta", "ppr_hard"}

\* the values a metric of a candidate is raised to: the values of the
\* column, and those plus 1/4 and plus 1 (a finish rate stays within 1)
raised_values(m) ==
    LET col == {candidates[d][m] : d \in DOMAIN candidates}
        all == {f_add(x, y) : x \in {c \in col : c.k = "num"},
                              y \in {Num(0, 1), Num(1, 4), Num(1, 1)}}
    IN  IF m = "finish_rate" THEN {v \in all : f_le(v, Num(1, 1))} ELSE all

\* the score of candidate d after its metric m is set to v, every other
\* value of the table kept
rescored(d, m, v) ==
    scored([candidates EXCEPT ![d][m] = v])[d].final_boss_score

\* C14: raising one of the four metrics of a candidate, with every other
\* metric of every candidate as it is, does not lower the candidate's
\* score: a score that is a number stays a number and does not get
\* smaller, whether or not the new value passes other candidates or the
\* column's minimum or maximum.
C14_Monotone ==
    pc = "top_15" =>
        \A d \in DOMAIN candidates, m \in metrics :
            \A v \in raised_values(m) :
                (f_gt(v, candidates[d][m])
                 /\ candidates[d].final_boss_score.k = "sum")
                => /\ rescored(d, m, v).k = "sum"
                   /\ sum_le(candidates[d].final_boss_score, rescored(d, m, v))

\* a candidate at the minimum of a column is raised above the maximum and
\* its score grows; another, at the maximum, is raised further
C14_Witness ==
    /\ pc = "top_15"
    /\ Cardinality(DOMAIN candidates) = 3
    /\ \E d, o \in DOMAIN candidates, m \in metrics :
          LET col == column(candidates, m)
              v == f_add(s_max(col), Num(1, 4))
          IN  /\ d # o
              /\ col[d] = s_min(col)
              /\ f_lt(col[d], col[o])
              /\ v \in raised_values(m)
              /\ sum_gt(rescored(d, m, v), candidates[d].final_boss_score)
              /\ col[o] = s_max(col)
              /\ f_add(col[o], Num(1, 1)) \in raised_values(m)
              /\ sum_le(candidates[o].final_boss_score,
                        rescored(o, m, f_add(col[o], Num(1, 1))))

\* the weights of the composite score, as fractions
weights == [ norm_ppr |-> <<3, 10>>, norm_finish |-> <<2, 10>>,
             norm_delta |-> <<2, 10>>, norm_hard |-> <<3, 10>> ]

\* the weighted norm columns of a scored row, as a list of terms
weighted(r) ==
    << e_scale(weights.norm_ppr[1], weights.norm_ppr[2], r.norm_ppr),
       e_scale(weights.norm_finish[1], weights.norm_finish[2], r.norm_finish),
       e_scale(weights.norm_delta[1], weights.norm_delta[2], r.norm_delta),
       e_scale(weights.norm_hard[1], weights.norm_hard[2], r.norm_hard) >>

\* C15: the weights 0.30, 0.20, 0.20, 0.30 add up to 1, and the score of
\* every candidate that has one equals 0.30 * norm_ppr + 0.20 * norm_finish
\* + 0.20 * norm_delta + 0.30 * norm_hard of its row and lies between 0
\* and 1.
C15_WeightedSum ==
    Scored =>
        /\ f_sum(DOMAIN weights,
                 [w \in DOMAIN weights |-> Num(weights[w][1], weights[w][2])])
           = Num(1, 1)
        /\ \A d \in DOMAIN candidates :
              LET r == candidates[d]
              IN  r.final_boss_score.k = "sum"
                  => /\ e_sign(r.final_boss_score.terms, weighted(r)) = 0
                     /\ e_sign(<<Zero>>, r.final_boss_score.terms) <= 0
                     /\ e_sign(r.final_boss_score.terms, <<One>>) <= 0

\* a scored candidate strictly between 0 and 1 whose norm columns differ,
\* next to a candidate at the top of all four columns
C15_Witness ==
    /\ Scored
    /\ \E d, o \in DOMAIN candidates :
          LET r == candidates[d]
          IN  /\ r.final_boss_score.k = "sum"
              /\ e_sign(<<Zero>>, r.final_boss_score.terms) < 0
              /\ e_sign(r.final_boss_score.terms, <<One>>) < 0
              /\ e_gt(r.norm_ppr, r.norm_finish)
              /\ candidates[o].final_boss_score.k = "sum"
              /\ \A p \in norm_columns : near_one(candidates[o][p[2]])

\* top_15 has been taken
Ranked == pc \in {"winner", "conclusion", "done"}

\* the position of candidate d in the candidate table
input_pos(d) ==
    LET keys == sorted_keys(DOMAIN candidates)
    IN  CHOOSE i \in DOMAIN keys : keys[i] = d

score_of(d) == candidates[d].final_boss_score
has_score(d) == score_of(d).k = "sum"
same_score(a, b) == e_sign(score_of(a).terms, score_of(b).terms) = 0

\* C16: the ranked list holds each candidate at most once and as many as
\* the cut-off allows; among candidates with a score, a later entry never
\* has the higher score, entries with equal scores stand in the order of
\* the candidate table, and a candidate left out by the cut-off has no
\* higher score than a ranked one and, at equal score, comes after it in
\* the candidate table.
C16_StableDescending ==
    Ranked =>
        /\ Len(top_15) = (IF Cardinality(DOMAIN candidates) < top_n
                          THEN Cardinality(DOMAIN candidates) ELSE top_n)
        /\ \A i, j \in DOMAIN top_15 : i < j => top_15[i] # top_15[j]
        /\ \A i, j \in DOMAIN top_15 :
              (i < j /\ has_score(top_15[i]) /\ has_score(top_15[j]))
              => /\ ~ sum_gt(score_of(top_15[j]), score_of(top_15[i]))
                 /\ same_score(top_15[i], top_15[j])
                    => input_pos(top_15[i]) < input_pos(top_15[j])
        /\ \A i \in DOMAIN top_15, d \in DOMAIN candidates \ ranked :
              (has_score(top_15[i]) /\ has_score(d))
              => /\ ~ sum_gt(score_of(d), score_of(top_15[i]))
                 /\ same_score(top_15[i], d)
                    => input_pos(top_15[i]) < input_pos(d)

\* three candidates: the first ranked has the highest score, the second
\* ranked and the one cut off have equal scores
C16_Witness ==
    /\ pc = "done"
    /\ Len(top_15) = top_n
    /\ \E d \in DOMAIN candidates \ ranked :
          /\ has_score(d) /\ has_score(top_15[1]) /\ has_score(top_15[2])
          /\ sum_gt(score_of(top_15[1]), score_of(top_15[2]))
          /\ same_score(top_15[2], d)

\* C17: when no driver passes the candidate filter, the ranked list is
\* empty and the step that takes the winner goes on to the conclusion
\* instead of raising.
C17_EmptyRanking ==
    [][(pc = "winner" /\ DOMAIN candidates = {})
       => (top_15 = << >> /\ pc' = "conclusion")]_vars

\* the steps of the script in order, and "the script has passed step l"
steps ==
    << "load", "circuit_stats", "tiers", "big_circuits", "circuit_finding",
       "merge", "age_bin", "age_perf", "h1_finding", "driver_summary",
       "experienced", "driver_easy_hard", "h2_finding", "constructor_season",
       "nationality", "h4_finding", "constructor_summary", "tank_finding",
       "constructor_easy_hard", "h3_finding", "hard_ppr", "candidates",
       "score", "top_15", "winner", "conclusion", "done" >>
step_no(l) == CHOOSE i \in DOMAIN steps : steps[i] = l
past(l) == pc # "raised" /\ step_no(pc) > step_no(l)

\* x would stand before y in a descending ranking
beats(x, y) ==
    /\ x.k # "nan"
    /\ \/ y.k = "nan"
       \/ IF x.k = "sum" THEN sum_gt(x, y) ELSE f_gt(x, y)

\* list is a ranking of the n best of the eligible keys by val, and of
\* nothing else
board_ok(eligible, list, n, val) ==
    LET listed == {list[i] : i \in DOMAIN list}
    IN  /\ listed \subseteq eligible
        /\ Len(list) = (IF Cardinality(eligible) < n THEN Cardinality(eligible) ELSE n)
        /\ Cardinality(listed) = Len(list)
        /\ \A e \in eligible \ listed, l \in listed : ~ beats(val[e], val[l])

eligible_circuits ==
    {c \in DOMAIN circuit_stats : circuit_stats[c].entries >= MinCircuitEntries}
eligible_drivers ==
    {d \in DOMAIN driver_summary : driver_summary[d].races >= MinDriverRaces}
eligible_nationalities ==
    {n \in DOMAIN nationality_summary :
        nationality_summary[n].races >= MinNationalityRaces}
eligible_constructors ==
    {c \in DOMAIN constructor_summary :
        constructor_summary[c].races >= MinConstructorRaces}
eligible_candidates ==
    {d \in eligible_drivers : driver_summary[d].ppr_hard.k # "nan"}
tank_scores ==
    [c \in DOMAIN constructor_summary |->
        f_mul(constructor_summary[c].points_per_race,
              constructor_summary[c].finish_rate)]

\* C18: each leaderboard ranks the entities that reach its threshold and
\* only those: the hardest circuits among the circuits with enough
\* entries, the drivers by points per race among the drivers with enough
\* races, the nationalities with enough races (all of them, sorted), the
\* constructors by tank score among those with enough races, and the
\* scorer's ranking among the candidates.  An entity below the threshold
\* is in no list, every list is as long as the eligible entities allow,
\* and no eligible entity left out would stand before a listed one.
C18_FilterBeforeRank ==
    /\ past("big_circuits") =>
          /\ DOMAIN big_circuits = eligible_circuits
          /\ board_ok(eligible_circuits, top_hard, board_n,
                      column(circuit_stats, "dnf_rate"))
    /\ past("experienced") =>
          /\ DOMAIN experienced = eligible_drivers
          /\ board_ok(eligible_drivers, top_ppr, board_n,
                      column(driver_summary, "points_per_race"))
    /\ past("nationality") =>
          board_ok(eligible_nationalities, nationality_filtered,
                   Cardinality(eligible_nationalities),
                   column(nationality_summary, "avg_normalized_points"))
    /\ past("tank_finding") =>
          /\ DOMAIN major_constructors = eligible_constructors
          /\ board_ok(eligible_constructors, top_tank, board_n, tank_scores)
    /\ past("top_15") =>
          /\ DOMAIN candidates = eligible_candidates
          /\ board_ok(eligible_candidates, top_15, top_n,
                      column(candidates, "final_boss_score"))

\* a driver and a constructor below their thresholds, each with a value
\* that beats the head of the list it is kept out of, a nationality below
\* its threshold whose average the head of the sorted list does not beat,
\* and a driver outside the scorer's candidates next to a ranked one
C18_Witness ==
    /\ pc = "done"
    /\ \E d \in DOMAIN driver_summary \ eligible_drivers :
          beats(driver_summary[d].points_per_race,
                driver_summary[top_ppr[1]].points_per_race)
    /\ \E n \in DOMAIN nationality_summary \ eligible_nationalities :
          /\ nationality_summary[n].avg_normalized_points.k = "num"
          /\ ~ beats(nationality_summary[nationality_filtered[1]].avg_normalized_points,
                     nationality_summary[n].avg_normalized_points)
    /\ \E c \in DOMAIN constructor_summary \ eligible_constructors :
          beats(tank_scores[c], tank_scores[top_tank[1]])
    /\ top_15 # << >>
    /\ DOMAIN driver_summary \ eligible_candidates # {}

\* the number of rows of entity key (column col) on circuits of tier t,
\* counted from the circuit table
rows_on_tier(col, key, t) ==
    Cardinality({i \in DOMAIN df :
                    /\ df[i][col] = Some(key)
                    /\ df[i].circuit_name # NaN
                    /\ circuit_stats[Val(df[i].circuit_name)].difficulty = t})

\* C19: every driver of the Easy-versus-Hard comparison has at least
\* min_races_per_tier rows on Easy circuits and as many on Hard circuits,
\* and every constructor of the constructor comparison has at least the
\* constructor threshold in each of the two tiers; so nobody is in a
\* comparison when no circuit is Easy or none is Hard.
C19_BothTiers ==
    /\ \A d \in DOMAIN driver_easy_hard :
          /\ rows_on_tier("driver", d, "Easy") >= min_races_per_tier
          /\ rows_on_tier("driver", d, "Hard") >= min_races_per_tier
    /\ \A c \in DOMAIN constructor_easy_hard :
          /\ rows_on_tier("constructor_name", c, "Easy") >= MinConstructorTierRaces
          /\ rows_on_tier("constructor_name", c, "Hard") >= MinConstructorTierRaces

\* both comparisons hold an entity, and a driver and a constructor with
\* enough rows on one tier and one row too few on the other are in neither
C19_Witness ==
    /\ past("constructor_easy_hard")
    /\ DOMAIN driver_easy_hard # {} /\ DOMAIN constructor_easy_hard # {}
    /\ \E d \in DOMAIN driver_summary \ DOMAIN driver_easy_hard :
       \E t, u \in {"Easy", "Hard"} :
          /\ rows_on_tier("driver", d, t) >= min_races_per_tier
          /\ rows_on_tier("driver", d, u) = min_races_per_tier - 1
    /\ \E c \in DOMAIN constructor_summary \ DOMAIN constructor_easy_hard :
       \E t, u \in {"Easy", "Hard"} :
          /\ rows_on_tier("constructor_name", c, t) >= MinConstructorTierRaces
          /\ rows_on_tier("constructor_name", c, u) = MinConstructorTierRaces - 1

\* the rows of the (season, constructor) group of row i of df_nat, its
\* points and its entries
season_group(i) ==
    {j \in DOMAIN df_nat :
        /\ df_nat[j].year = df_nat[i].year
        /\ df_nat[j].constructor_name = df_nat[i].constructor_name}
group_points(i) == sum_col(season_group(i), "points")
group_entries(i) == count(season_group(i), "driver")
grouped(i) == ~IsNa(df_nat[i].year) /\ ~IsNa(df_nat[i].constructor_name)

\* C20: normalized_points of a row is a number or missing, never
\* infinite; it is points * entries / points of the row's (season,
\* constructor) group when the group has entries and points and the row
\* has points, and missing when the group's points per entry are zero or
\* the row has no group; the nationality's avg_normalized_points is the
\* mean of the rows' values that are numbers, and missing when there are
\* none.
C20_NormalizedPoints ==
    /\ \A i \in DOMAIN df_nat :
          LET x == df_nat[i].normalized_points
          IN  /\ x.k \in {"num", "nan"}
              /\ (grouped(i) /\ group_entries(i) > 0 /\ group_points(i) > 0
                  /\ ~IsNa(df_nat[i].points))
                 => x = Num(Val(df_nat[i].points) * group_entries(i), group_points(i))
              /\ (~grouped(i) \/ group_points(i) = 0 \/ IsNa(df_nat[i].points))
                 => x = FNaN
    /\ past("nationality") =>
          \A n \in DOMAIN nationality_summary :
             LET D == {i \in DOMAIN df_nat :
                          /\ df_nat[i].driver_nationality = Some(n)
                          /\ df_nat[i].normalized_points.k = "num"}
                 avg == nationality_summary[n].avg_normalized_points
             IN  IF D = {} THEN avg = FNaN
                 ELSE avg = f_div(f_sum(D, [i \in DOMAIN df_nat |->
                                               df_nat[i].normalized_points]),
                                  Num(Cardinality(D), 1))

\* a nationality whose average is a number although one of its rows is in
\* a group with entries and no points, with constructor_ppr 0 and no
\* normalized_points; some row scored twice its group's points per entry
C20_Witness ==
    /\ past("nationality")
    /\ \E n \in DOMAIN nationality_summary :
       \E i \in DOMAIN df_nat :
          /\ df_nat[i].driver_nationality = Some(n)
          /\ grouped(i) /\ group_entries(i) > 0 /\ group_points(i) = 0
          /\ df_nat[i].constructor_ppr = Num(0, 1)
          /\ df_nat[i].normalized_points = FNaN
          /\ nationality_summary[n].avg_normalized_points.k = "num"
    /\ \E j \in DOMAIN df_nat : df_nat[j].normalized_points = Num(2, 1)

\* df carries age_bin
Binned == df # << >> /\ "age_bin" \in DOMAIN df[1]

\* the bucket edges with an open last bucket: 18, 22, 25, 30, 35, 40
bucket_edges == <<18, 22, 25, 30, 35, 40>>

\* age x lies in bucket i: edge i <= x, and x < edge i+1 unless i is last
in_bucket(x, i) ==
    /\ bucket_edges[i] * x.d <= x.n
    /\ i < Len(bucket_edges) => x.n < bucket_edges[i + 1] * x.d

\* C21: every row with a defined age_years of 18 or more has the label
\* of the one bucket [low, high) its age lies in, an age on an edge that
\* of the bucket starting there, and every age from 40 on the last label.
C21_AgeBuckets ==
    Binned =>
        \A r \in DOMAIN df :
            (df[r].age_years.k = "num" /\ f_le(Num(18, 1), df[r].age_years))
            => \E i \in DOMAIN bucket_edges :
                  /\ in_bucket(df[r].age_years, i)
                  /\ df[r].age_bin = Some(age_labels[i])

\* the columns of the rows of a summary table
columns_of(tbl) == UNION {DOMAIN tbl[d] : d \in DOMAIN tbl}

\* C22: a run of the script after a finished run on the same loaded file
\* ends with the tables, tiers, candidates, scores and findings of the
\* run before it; and attaching ppr_hard to a driver_summary that already
\* carries it gives the same table, with the one ppr_hard column.
C22_RerunSame ==
    /\ (run > 1 /\ pc = "done") => first = Some(outputs)
    /\ past("hard_ppr") =>
          /\ attach_ppr_hard(driver_summary) = driver_summary
          /\ columns_of(driver_summary) \cap {"ppr_hard_x", "ppr_hard_y"} = {}

\* a second run has ended, with candidates scored and a driver outside
\* them whose ppr_hard is missing
C22_Witness ==
    /\ run = 2 /\ pc = "done"
    /\ first # NaN /\ Val(first).candidates # << >>
    /\ \E d, x \in DOMAIN driver_summary :
          /\ driver_summary[d].ppr_hard.k = "num"
          /\ driver_summary[x].ppr_hard.k = "nan"
    /\ "ppr_hard" \in columns_of(driver_summary)

\* C23: once load_and_process_data has returned, a step of the run keeps
\* every row of df in its place with the values of its base fields and of
\* age_years, finished, status_category and position_delta, and with
\* every column it had (columns are only added); df_nat, the copy the
\* nationality analysis works on, carries the same values.
C23_FrameOfRows ==
    [][(pc # "load" /\ pc' # "load")
       => /\ Len(df') = Len(df)
          /\ \A i \in DOMAIN df :
                /\ DOMAIN df[i] \subseteq DOMAIN df'[i]
                /\ \A col \in DOMAIN df[i] : df'[i][col] = df[i][col]
          /\ Len(df_nat') \in {0, Len(df)}
          /\ \A i \in DOMAIN df_nat' :
                \A col \in base_columns : df_nat'[i][col] = df[i][col]]_vars

\* the end of a run over rows with and without circuit and age, after
\* the tier join and the bucketing have attached their columns
C23_Witness ==
    /\ pc = "done"
    /\ Len(df) = Len(csv) /\ Len(df_nat) = Len(df)
    /\ \A i \in DOMAIN df :
          base_columns \cup {"dnf_rate", "difficulty", "age_bin"} \subseteq DOMAIN df[i]
    /\ \E i, j \in DOMAIN df :
          /\ df[i].final_position = NaN /\ df[i].position_delta = NaN
          /\ df[j].finished /\ df[j].position_delta # NaN

\* the values the metric m of a driver outside the candidates is changed
\* to: past either end of the candidates' column (a finish rate: 0 and 1)
outside_values(m) ==
    LET col == column(candidates, m)
    IN  IF m = "finish_rate" THEN {Num(0, 1), Num(1, 1)}
        ELSE {v \in {f_add(s_max(col), Num(1, 1)), f_sub(s_min(col), Num(1, 1))} :
                 v.k = "num"}

\* driver d passes the candidate filter in the summary table tbl
passes_filter(tbl, d) ==
    tbl[d].races >= MinDriverRaces /\ tbl[d].ppr_hard.k # "nan"

\* C24: the scored candidate table is a function of the rows of the
\* drivers that pass the candidate filter: a driver summary that differs
\* in one metric of a driver outside the filter gives every driver that
\* passes it the same normalized values and the same score.
C24_CandidatesOnly ==
    Scored =>
        \A x \in DOMAIN driver_summary, m \in metrics :
            \A v \in outside_values(m) :
                LET other == [driver_summary EXCEPT ![x][m] = v]
                IN  (~ passes_filter(driver_summary, x) /\ ~ passes_filter(other, x))
                    => \A d \in DOMAIN driver_summary :
                          passes_filter(driver_summary, d)
                          => /\ d \in DOMAIN candidates
                             /\ scored(candidates_of(other))[d] = candidates[d]

\* scored candidates next to a driver outside the filter whose points
\* per race lie above those of every candidate
C24_Witness ==
    /\ Scored
    /\ Cardinality(DOMAIN candidates) >= 2
    /\ \E d \in DOMAIN candidates : candidates[d].norm_ppr # Zero
    /\ \E x \in DOMAIN driver_summary :
          /\ ~ passes_filter(driver_summary, x)
          /\ \A d \in DOMAIN candidates :
                f_gt(driver_summary[x].points_per_race, candidates[d].points_per_race)

\* C25: every circuit of circuit_stats counts no more finishes than
\* entries, and its dnf_rate is a number between 0 and 1.
C25_DnfRateRange ==
    \A c \in DOMAIN circuit_stats :
        /\ circuit_stats[c].finishes <= circuit_stats[c].entries
        /\ circuit_stats[c].dnf_rate.k = "num"
        /\ f_le(Num(0, 1), circuit_stats[c].dnf_rate)
        /\ f_le(circuit_stats[c].dnf_rate, Num(1, 1))

\* C26: the driver the conclusion names as leading hard-track PPR has the
\* highest ppr_hard of the candidates.
C26_NamedLeadsHardPpr ==
    (pc = "done" /\ h2_finding # NaN)
    => /\ Val(h2_finding) \in DOMAIN candidates
       /\ \A d \in DOMAIN candidates :
             ~ f_gt(candidates[d].ppr_hard, candidates[Val(h2_finding)].ppr_hard)

====
